---- MODULE Spec2Model ----
(***************************************************************************)
(* Verification model of the ILI pipeline core of bforce541/tidal-hack:    *)
(* anomaly matching (backend/pipeline/src/match.py) and weld-anchored      *)
(* alignment (backend/pipeline/src/align.py).                              *)
(*                                                                         *)
(* Numbers are fixed point.  Distances are integers in units of 1/200 m   *)
(* (5 mm), clock positions in units of half a degree, depths in percent,   *)
(* lengths and widths in mm, and match scores in units of 1/200, so that   *)
(* every weight of config.py is an integer.  Indices are 1-based where     *)
(* Python's are 0-based.                                                   *)
(***************************************************************************)
EXTENDS Integers, Sequences, FiniteSets, TLC

(***************************************************************************)
(* Missing values.  NaN is the float NaN of a numeric column, NA the       *)
(* missing value of a text column.                                         *)
(***************************************************************************)
NaN ==
  -1000000

NA ==
  "<NA>"

\* pd.isna on a number
isna(v) ==
  v = NaN

notna(v) ==
  ~isna(v)

\* pd.isna on a text
isna_text(e) ==
  e = NA

Abs(x) ==
  IF x < 0 THEN -x ELSE x

\* abs(a - b) on floats: NaN when either operand is NaN.
AbsDiff(a, b) ==
  IF a = NaN \/ b = NaN THEN NaN ELSE Abs(a - b)

\* a > b on floats: false when either operand is NaN.
Gt(a, b) ==
  a # NaN /\ b # NaN /\ a > b

\* a <= b on floats: false when either operand is NaN.
Le(a, b) ==
  a # NaN /\ b # NaN /\ a <= b

(***************************************************************************)
(* Text.  A text value is a TLA+ string; Chars spells the texts the model  *)
(* uses as character sequences, on which strip, lower and the substring    *)
(* test "p in s" are computed.                                             *)
(***************************************************************************)
Chars ==
  ("metal loss" :> <<"m","e","t","a","l"," ","l","o","s","s">>) @@
  ("Cluster" :> <<"C","l","u","s","t","e","r">>) @@
  (" Girth Weld " :> <<" ","G","i","r","t","h"," ","W","e","l","d"," ">>) @@
  ("Seam Weld Manufacturing Anomaly" :> <<"S","e","a","m"," ","W","e","l","d"," ","M","a","n","u","f","a","c","t","u","r","i","n","g"," ","A","n","o","m","a","l","y">>) @@
  ("dent" :> <<"d","e","n","t">>)

UpperCase ==
  <<"A","B","C","D","E","F","G","H","I","J","K","L","M","N","O","P","Q","R","S","T","U","V","W","X","Y","Z">>

LowerCase ==
  <<"a","b","c","d","e","f","g","h","i","j","k","l","m","n","o","p","q","r","s","t","u","v","w","x","y","z">>

\* str.lower() on one character.
LowerChar(c) ==
  IF \E k \in 1..Len(UpperCase) : UpperCase[k] = c
  THEN LowerCase[CHOOSE k \in 1..Len(UpperCase) : UpperCase[k] = c]
  ELSE c

Lower(s) ==
  [k \in 1..Len(s) |-> LowerChar(s[k])]

RECURSIVE StripLeft(_)
StripLeft(s) ==
  IF s # <<>> /\ Head(s) = " " THEN StripLeft(Tail(s)) ELSE s

RECURSIVE StripRight(_)
StripRight(s) ==
  IF s # <<>> /\ s[Len(s)] = " " THEN StripRight(SubSeq(s, 1, Len(s) - 1)) ELSE s

\* str.strip()
Strip(s) ==
  StripRight(StripLeft(s))

\* the substring test "p in s"
Contains(s, p) ==
  \E k \in 1..(Len(s) - Len(p) + 1) : SubSeq(s, k, k + Len(p) - 1) = p

\* any(p in s for p in patterns)
AnyIn(s, patterns) ==
  \E k \in 1..Len(patterns) : Contains(s, patterns[k])

(***************************************************************************)
(* match.py: feature families                                              *)
(***************************************************************************)
METAL_LOSS_PATTERNS ==
  << <<"m","e","t","a","l"," ","l","o","s","s">>,
     <<"c","o","r","r","o","s","i","o","n">>,
     <<"e","x","t","e","r","n","a","l"," ","m","l">>,
     <<"i","n","t","e","r","n","a","l"," ","m","l">>,
     <<"m","e","t","a","l"," ","l","o","s","s","-","m","a","n","u","f","a","c","t","u","r","i","n","g">>,
     <<"m","e","t","a","l"," ","l","o","s","s"," ","m","a","n","u","f","a","c","t","u","r","i","n","g">>,
     <<"m","e","t","a","l"," ","l","o","s","s"," ","m","a","n","u","f","a","c","t","u","r","i","n","g"," ","a","n","o","m","a","l","y">>,
     <<"m","e","t","a","l"," ","l","o","s","s"," ","a","n","o","m","a","l","y">>,
     <<"s","e","a","m"," ","w","e","l","d"," ","m","a","n","u","f","a","c","t","u","r","i","n","g"," ","a","n","o","m","a","l","y">>,
     <<"m","e","t","a","l"," ","l","o","s","s"," ","m","a","n","u","f","a","c","t","u","r","i","n","g"," ","a","n","o","m","a","l","y">>,
     <<"s","e","a","m"," ","w","e","l","d"," ","a","n","o","m","a","l","y">>,
     <<"m","e","t","a","l"," ","l","o","s","s"," ","d","e","p","t","h">> >>

CLUSTER_PATTERNS ==
  << <<"c","l","u","s","t","e","r">> >>

WELD_FAMILY ==
  << <<"w","e","l","d">>,
     <<"g","w">>,
     <<"g","i","r","t","h">>,
     <<"g","i","r","t","h"," ","w","e","l","d">>,
     <<"g","i","r","t","h","w","e","l","d">> >>

UNKNOWN ==
  "UNKNOWN"

\* lines 58-63 on the stripped, lower-cased text s: the first family (in the
\* order of FEATURE_FAMILIES) with a pattern in s, else WELD, else UNKNOWN
FamilyOfText(s) ==
  IF AnyIn(s, METAL_LOSS_PATTERNS) THEN "METAL_LOSS"
  ELSE IF AnyIn(s, CLUSTER_PATTERNS) THEN "CLUSTER"
  ELSE IF AnyIn(s, WELD_FAMILY) THEN "WELD"
  ELSE UNKNOWN

\* FamilyOfText(str(event).strip().lower()), tabulated over the texts of the model
FamilyTable ==
  [e \in DOMAIN Chars |-> FamilyOfText(Lower(Strip(Chars[e])))]

to_feature_family(event) ==
  IF isna_text(event) THEN UNKNOWN ELSE FamilyTable[event]

is_anomaly(event) ==
  LET fam == to_feature_family(event)
  IN  fam # "WELD" /\ fam \in {"METAL_LOSS", "CLUSTER", UNKNOWN}

_type_compatible(t_prev, t_later) ==
  LET a == to_feature_family(t_prev)
      b == to_feature_family(t_later)
  IN  IF a = "WELD" \/ b = "WELD" THEN FALSE
      ELSE IF a = UNKNOWN \/ b = UNKNOWN THEN TRUE
      ELSE a = b

(***************************************************************************)
(* config.py, in fixed point                                               *)
(***************************************************************************)
\* AXIAL_TOL_M = 50.0 m
AXIAL_TOL_M ==
  10000

\* CLOCK_TOL_DEG = 30 degrees
CLOCK_TOL_DEG ==
  60

\* MATCH_SCORE_EPSILON = 0.5
MATCH_SCORE_EPSILON ==
  100

\* W_DIST = 1.0 per m
W_DIST ==
  1

\* W_CLOCK = 0.01 per degree
W_CLOCK ==
  1

\* W_DEPTH = 1.0 per percent
W_DEPTH ==
  200

\* W_LENGTH = 0.1 per mm
W_LENGTH ==
  20

\* W_WIDTH = 0.1 per mm
W_WIDTH ==
  20

\* the UNKNOWN penalty 10.0 of score_match
UNKNOWN_PENALTY ==
  2000

\* 180 and 360 degrees
HALF_TURN ==
  360

FULL_TURN ==
  720

(***************************************************************************)
(* match.py: hard filters and score                                        *)
(***************************************************************************)
_circular_clock_diff(a, b) ==
  IF isna(a) \/ isna(b) THEN 0
  ELSE Abs(((a - b + HALF_TURN) % FULL_TURN) - HALF_TURN)

\* "x or 0" followed by "abs(p - l) if pd.notna(p) and pd.notna(l) else 0"
AbsDiffOrZero(p, l) ==
  IF notna(p) /\ notna(l) THEN Abs(p - l) ELSE 0

score_match(r_prev, r_later) ==
  LET dd     == AbsDiff(r_prev.distance_corrected_m, r_later.distance_corrected_m)
      dtheta == _circular_clock_diff(r_prev.clock_position_deg, r_later.clock_position_deg)
      ddep   == AbsDiffOrZero(r_prev.depth_percent, r_later.depth_percent)
      dlen   == AbsDiffOrZero(r_prev.length_mm, r_later.length_mm)
      dwid   == AbsDiffOrZero(r_prev.width_mm, r_later.width_mm)
      pen    == IF to_feature_family(r_prev.feature_type) = UNKNOWN
                   \/ to_feature_family(r_later.feature_type) = UNKNOWN
                THEN UNKNOWN_PENALTY ELSE 0
  IN  IF dd = NaN THEN NaN
      ELSE W_DIST * dd + W_CLOCK * dtheta + W_DEPTH * ddep
           + W_LENGTH * dlen + W_WIDTH * dwid + pen

\* variant of _hard_filter: the feature-type test is missing
_hard_filter_NoTypeTest(row_prev, row_later, axial_tol, clock_tol) ==
  LET dd     == AbsDiff(row_prev.distance_corrected_m, row_later.distance_corrected_m)
      dtheta == _circular_clock_diff(row_prev.clock_position_deg, row_later.clock_position_deg)
  IN  IF Gt(dd, axial_tol) THEN FALSE
      ELSE IF Gt(dtheta, clock_tol) THEN FALSE
      ELSE TRUE

_hard_filter(row_prev, row_later, axial_tol, clock_tol) ==
  LET dd     == AbsDiff(row_prev.distance_corrected_m, row_later.distance_corrected_m)
      dtheta == _circular_clock_diff(row_prev.clock_position_deg, row_later.clock_position_deg)
  IN  IF Gt(dd, axial_tol) THEN FALSE
      ELSE IF Gt(dtheta, clock_tol) THEN FALSE
      ELSE IF ~_type_compatible(row_prev.feature_type, row_later.feature_type) THEN FALSE
      ELSE TRUE

(***************************************************************************)
(* Floats of the alignment.  A weld map's scale and offset and a corrected *)
(* distance are exact fractions [n, d] with d > 0 in lowest terms; NaN is  *)
(* the fraction QNaN.                                                      *)
(***************************************************************************)
RECURSIVE GCD(_, _)
GCD(a, b) ==
  IF b = 0 THEN a ELSE GCD(b, a % b)

QNaN ==
  [n |-> 0, d |-> 0]

\* the fraction n/d in lowest terms, d # 0
Q(n, d) ==
  LET g == GCD(Abs(n), Abs(d))
  IN  IF d > 0 THEN [n |-> n \div g, d |-> d \div g]
      ELSE [n |-> (-n) \div g, d |-> (-d) \div g]

\* a distance of the tables as a float
ToQ(x) ==
  IF x = NaN THEN QNaN ELSE [n |-> x, d |-> 1]

\* a + b, over the least common denominator
QAdd(a, b) ==
  IF a = QNaN \/ b = QNaN THEN QNaN
  ELSE LET g == GCD(a.d, b.d)
       IN  Q(a.n * (b.d \div g) + b.n * (a.d \div g), a.d * (b.d \div g))

\* a - b, over the least common denominator
QSub(a, b) ==
  IF a = QNaN \/ b = QNaN THEN QNaN
  ELSE LET g == GCD(a.d, b.d)
       IN  Q(a.n * (b.d \div g) - b.n * (a.d \div g), a.d * (b.d \div g))

QMul(a, b) ==
  IF a = QNaN \/ b = QNaN THEN QNaN ELSE Q(a.n * b.n, a.d * b.d)

\* a / b for b # 0
QDiv(a, b) ==
  IF a = QNaN \/ b = QNaN THEN QNaN ELSE Q(a.n * b.d, a.d * b.n)

\* a < b on floats: false when either is NaN
QLt(a, b) ==
  a # QNaN /\ b # QNaN /\ a.n * b.d < b.n * a.d

\* a - b on distances: NaN when either is NaN
Sub(a, b) ==
  IF a = NaN \/ b = NaN THEN NaN ELSE a - b

\* a < b on distances: false when either is NaN
Lt(a, b) ==
  a # NaN /\ b # NaN /\ a < b

(***************************************************************************)
(* config.py and align.py constants, in fixed point                        *)
(***************************************************************************)
\* SEGMENT_LENGTH_MIN_M = 0.01 m
SEGMENT_LENGTH_MIN_M ==
  2

\* the monotonicity tolerance 1e-9 m is 1 / MONOTONIC_TOL_INV units
MONOTONIC_TOL_INV ==
  5000000

WELD_PATTERNS ==
  << <<"w","e","l","d">>,
     <<"g","w">>,
     <<"g","i","r","t","h">> >>

\* any(p in s for p in WELD_PATTERNS), tabulated over the texts of the model
IsWeldTable ==
  [e \in DOMAIN Chars |-> AnyIn(Lower(Strip(Chars[e])), WELD_PATTERNS)]

is_weld(event) ==
  IF isna_text(event) THEN FALSE ELSE IsWeldTable[event]

(***************************************************************************)
(* Bounds and inputs of the alignment model                                *)
(***************************************************************************)
MaxRowsPrev ==
  2

MaxRowsLater ==
  3

Row(jn, dist, ft) ==
  [joint_number |-> jn, distance_raw_m |-> dist, feature_type |-> ft]

\* Rows of a normalized previous run: welds at 0 m and 100 m, an anomaly at
\* 0.5 m in joint 1, an anomaly of unknown distance in joint 2.
PrevRows ==
  { Row(1, 0, " Girth Weld "),
    Row(2, 20000, " Girth Weld "),
    Row(1, 100, "metal loss"),
    Row(2, NaN, "metal loss") }

\* Rows of a normalized later run: welds at 0 m, 98 m and 98.005 m, an
\* anomaly at 49 m in joint 1, an anomaly of unknown distance in joint 2.
LaterRows ==
  { Row(1, 0, " Girth Weld "),
    Row(2, 19600, " Girth Weld "),
    Row(3, 19601, " Girth Weld "),
    Row(1, 9800, "metal loss"),
    Row(2, NaN, "metal loss") }

(***************************************************************************)
(* align.py: weld detection                                                *)
(***************************************************************************)
RECURSIVE InsertSorted(_, _)
\* ascending, NaN last
InsertSorted(x, sorted) ==
  IF sorted = <<>> THEN <<x>>
  ELSE IF Lt(x, Head(sorted)) \/ (x # NaN /\ Head(sorted) = NaN) THEN <<x>> \o sorted
  ELSE <<Head(sorted)>> \o InsertSorted(x, Tail(sorted))

RECURSIVE SortValues(_)
\* sort_values(): ascending, NaN last
SortValues(q) ==
  IF q = <<>> THEN <<>> ELSE InsertSorted(Head(q), SortValues(Tail(q)))

RECURSIVE ExplicitWeldDistances(_, _)
\* df[mask].dropna(subset=[dist_col]): the known distances of the weld rows
ExplicitWeldDistances(df, k) ==
  IF k > Len(df) THEN <<>>
  ELSE IF is_weld(df[k].feature_type) /\ notna(df[k].distance_raw_m)
       THEN <<df[k].distance_raw_m>> \o ExplicitWeldDistances(df, k + 1)
  ELSE ExplicitWeldDistances(df, k + 1)

\* get_welds_explicit: the sorted weld distances, <<>> for None
get_welds_explicit(df) ==
  SortValues(ExplicitWeldDistances(df, 1))

\* groupby(joint)[dist].min() of one joint: NaN when no distance is known
JointMin(df, jn) ==
  LET ds == {df[k].distance_raw_m : k \in {r \in 1..Len(df) :
                df[r].joint_number = jn /\ notna(df[r].distance_raw_m)}}
  IN  IF ds = {} THEN NaN ELSE CHOOSE m \in ds : \A x \in ds : m <= x

RECURSIVE JointMins(_, _, _)
\* the minima of the joints, one per distinct known joint number
JointMins(df, k, seen) ==
  IF k > Len(df) THEN <<>>
  ELSE IF isna(df[k].joint_number) \/ df[k].joint_number \in seen THEN JointMins(df, k + 1, seen)
  ELSE <<JointMin(df, df[k].joint_number)>> \o JointMins(df, k + 1, seen \cup {df[k].joint_number})

get_welds_from_joints(df) ==
  SortValues(JointMins(df, 1, {}))

get_welds(df) ==
  LET w == get_welds_explicit(df)
  IN  IF Len(w) > 0 THEN w ELSE get_welds_from_joints(df)

(***************************************************************************)
(* align.py: build_weld_map, _segment_transform                            *)
(***************************************************************************)
\* abs(seg_len_later) < SEGMENT_LENGTH_MIN_M, false for NaN
Degenerate(seg_len_later) ==
  seg_len_later # NaN /\ Abs(seg_len_later) < SEGMENT_LENGTH_MIN_M

\* one iteration of the loop of build_weld_map (k is 1-based)
WeldMapRow(wp, wl, k) ==
  LET dp_i  == wp[k]
      dp_i1 == IF k + 1 <= Len(wp) THEN wp[k + 1] ELSE dp_i
      dl_i  == wl[k]
      dl_i1 == IF k + 1 <= Len(wl) THEN wl[k + 1] ELSE dl_i
      seg_len_prev  == Sub(dp_i1, dp_i)
      seg_len_later == Sub(dl_i1, dl_i)
      scale == QDiv(ToQ(seg_len_prev), ToQ(seg_len_later))
  IN  IF Degenerate(seg_len_later)
      THEN [weld_uid_prev |-> k, weld_uid_later |-> k,
            distance_prev_m |-> dp_i, distance_later_m |-> dl_i, segment_id |-> k,
            scale |-> ToQ(1), offset |-> ToQ(0),
            segment_length_prev_m |-> seg_len_prev,
            segment_length_later_m |-> seg_len_later,
            align_flag |-> "degenerate_segment"]
      ELSE [weld_uid_prev |-> k, weld_uid_later |-> k,
            distance_prev_m |-> dp_i, distance_later_m |-> dl_i, segment_id |-> k,
            scale |-> scale, offset |-> QSub(ToQ(dp_i), QMul(scale, ToQ(dl_i))),
            segment_length_prev_m |-> seg_len_prev,
            segment_length_later_m |-> seg_len_later,
            align_flag |-> ""]

Min(a, b) ==
  IF a <= b THEN a ELSE b

\* variant of build_weld_map: one row per consecutive pair of shared welds
build_weld_map_PairsOnly(wp, wl) ==
  [k \in 1..(Min(Len(wp), Len(wl)) - 1) |-> WeldMapRow(wp, wl, k)]

build_weld_map(wp, wl) ==
  [k \in 1..Min(Len(wp), Len(wl)) |-> WeldMapRow(wp, wl, k)]

\* variant of _segment_transform: the offset is not scaled
_segment_transform_OffsetUnscaled(d_later_lo, d_later_hi, d_prev_lo, d_prev_hi, d_raw) ==
  LET seg_len_later == Sub(d_later_hi, d_later_lo)
      seg_len_prev  == Sub(d_prev_hi, d_prev_lo)
      scale  == QDiv(ToQ(seg_len_prev), ToQ(seg_len_later))
      offset == QSub(ToQ(d_prev_lo), ToQ(d_later_lo))
  IN  IF Degenerate(seg_len_later) THEN <<ToQ(d_raw), "degenerate_segment">>
      ELSE <<QAdd(QMul(scale, ToQ(d_raw)), offset), "">>

\* returns <<corrected, align_flag>>
_segment_transform(d_later_lo, d_later_hi, d_prev_lo, d_prev_hi, d_raw) ==
  LET seg_len_later == Sub(d_later_hi, d_later_lo)
      seg_len_prev  == Sub(d_prev_hi, d_prev_lo)
      scale  == QDiv(ToQ(seg_len_prev), ToQ(seg_len_later))
      offset == QSub(ToQ(d_prev_lo), QMul(scale, ToQ(d_later_lo)))
  IN  IF Degenerate(seg_len_later) THEN <<ToQ(d_raw), "degenerate_segment">>
      ELSE <<QAdd(QMul(scale, ToQ(d_raw)), offset), "">>

(***************************************************************************)
(* Bounds and inputs of the matching model                                 *)
(***************************************************************************)
MaxPrev ==
  2

MaxLater ==
  2

Feature(dc, clock, ft, depth, len, wid) ==
  [distance_corrected_m |-> dc, clock_position_deg |-> clock, feature_type |-> ft,
   depth_percent |-> depth, length_mm |-> len, width_mm |-> wid]

\* Rows of an aligned previous run: 10.1 m; 10.6 m; a cluster; an unknown type
\* at 31 degrees; a girth weld; an unknown distance; 60.1 m.
PrevPool ==
  { Feature(2020, 0, "metal loss", 20, NaN, NaN),
    Feature(2120, 0, "metal loss", 20, 5, NaN),
    Feature(2020, 0, "Cluster", 20, NaN, NaN),
    Feature(2020, 62, "dent", NaN, NaN, NaN),
    Feature(2020, 0, " Girth Weld ", NaN, NaN, NaN),
    Feature(NaN, 0, "metal loss", 20, NaN, NaN),
    Feature(12020, 0, "metal loss", 20, NaN, NaN) }

\* Rows of an aligned later run: 10.0 m; 10.3 m at 355 degrees; 10.1 m one
\* percent deeper; an unknown distance; a girth weld; an unknown type with
\* unknown clock.
LaterPool ==
  { Feature(2000, 0, "Seam Weld Manufacturing Anomaly", 20, NaN, NaN),
    Feature(2060, 710, "metal loss", 20, 7, NaN),
    Feature(2020, 0, "metal loss", 21, NaN, NaN),
    Feature(NaN, 0, "metal loss", 20, NaN, NaN),
    Feature(2020, 0, " Girth Weld ", NaN, NaN, NaN),
    Feature(2020, NaN, "dent", NaN, NaN, NaN) }

SeqsUpTo(S, n) ==
  UNION { [1..k -> S] : k \in 0..n }

VARIABLES
  pc,             \* position in match_anomalies
  df_prev,        \* argument: the aligned previous run
  df_later,       \* argument: the aligned later run
  prev,           \* anomalies of df_prev, index reset
  later,          \* anomalies of df_later, index reset
  i,              \* index of the later row the loop is at
  matches,
  ambiguous_list,
  used_prev,
  used_later,
  new_rows,       \* returned New table, as indices into later
  missing_rows    \* returned Missing table, as indices into prev

matchVars ==
  <<pc, df_prev, df_later, prev, later, i, matches, ambiguous_list,
    used_prev, used_later, new_rows, missing_rows>>

VARIABLES
  apc,               \* position in align_two_runs
  normalized_prev,   \* normalized[prev_year]
  normalized_later,  \* normalized[later_year]
  welds_prev,        \* weld distances of the previous run, in weld order
  welds_later,       \* weld distances of the later run, in weld order
  weld_map,          \* rows of the weld map built so far
  aligned_prev,      \* distance_corrected_m column of the previous run
  corrected,         \* distance_corrected_m column of the later run, so far
  idx,               \* row the loop of align_run_to_reference is at
  prev_c,            \* corrected distance of the row before, <<>> for None
  flags,             \* monotonic_violation flags
  raised             \* whether align_two_runs raised

alignVars ==
  <<apc, normalized_prev, normalized_later, welds_prev, welds_later, weld_map,
    aligned_prev, corrected, idx, prev_c, flags, raised>>

VARIABLES
  spc,            \* position in parse_run
  columns,        \* df.columns: the headers of the sheet
  sheet_year,     \* year
  rename,         \* rename and units of build_column_map
  missing_req,
  missing_rec,
  parse_error,    \* the ValueError raised, <<>> when none
  out_columns,    \* columns of the parsed table returned, <<>> when none
  schema_info     \* the schema_info returned, <<>> when none

schemaVars ==
  <<spc, columns, sheet_year, rename, missing_req, missing_rec, parse_error,
    out_columns, schema_info>>

\* parse_run is not running
SchemaIdle ==
  /\ spc = "idle"
  /\ columns = <<>>
  /\ sheet_year = 0
  /\ rename = <<>>
  /\ missing_req = <<>>
  /\ missing_rec = <<>>
  /\ parse_error = <<>>
  /\ out_columns = <<>>
  /\ schema_info = <<>>

VARIABLES
  rpc,            \* position in main, run_multirun, run_stretch and run_mvp
  mode,           \* --mode
  args_runs,      \* --runs
  run_years,      \* run_years of run_mvp
  workbook,       \* the sheets of the input file: year of the sheet name -> headers
  year_i,         \* position of the loop of load_and_parse_runs in run_years
  parsed,         \* parsed: year -> columns of the parsed table
  report,         \* schema_report of load_and_parse_runs, <<>> before it is built
  report_file,    \* tables/schema_report.json, <<>> while not written
  stages,         \* the stages executed after the schema stage, in order
  tables_written, \* the output files written
  rc              \* the return code, -1 while running

runVars ==
  <<rpc, mode, args_runs, run_years, workbook, year_i, parsed, report,
    report_file, stages, tables_written, rc>>

\* the pipeline driver is not running
RunIdle ==
  /\ rpc = "idle"
  /\ mode = ""
  /\ args_runs = <<>>
  /\ run_years = <<>>
  /\ workbook = <<>>
  /\ year_i = 1
  /\ parsed = <<>>
  /\ report = <<>>
  /\ report_file = <<>>
  /\ stages = <<>>
  /\ tables_written = {}
  /\ rc = -1

VARIABLES
  gpc,            \* position in compute_growth_for_matches
  matches_in,     \* matches: the rows of the Matches table
  growth_prev_year,
  growth_later_year,
  years,
  m_with_growth   \* out: the rows of the table returned

growthVars ==
  <<gpc, matches_in, growth_prev_year, growth_later_year, years, m_with_growth>>

\* compute_growth_for_matches is not running
GrowthIdle ==
  /\ gpc = "idle"
  /\ matches_in = <<>>
  /\ growth_prev_year = 0
  /\ growth_later_year = 0
  /\ years = 0
  /\ m_with_growth = <<>>

VARIABLES
  ppc,            \* position in compute_projections
  matches_df,     \* the rows of the Matches table loaded for the job
  target_years,
  k_valid,        \* the fitted k of the rows that have one
  rates_valid,    \* the growth rates of the rows that have one
  p90,
  ty_i,           \* position of the outer loop in target_years
  row_i,          \* position of the inner loop in matches_df
  proj_rows,      \* rows of the target year in progress
  result          \* target year -> rows of its projection table

projectVars ==
  <<ppc, matches_df, target_years, k_valid, rates_valid, p90, ty_i, row_i,
    proj_rows, result>>

\* compute_projections is not running
ProjectIdle ==
  /\ ppc = "idle"
  /\ matches_df = <<>>
  /\ target_years = <<>>
  /\ k_valid = <<>>
  /\ rates_valid = <<>>
  /\ p90 = 0
  /\ ty_i = 1
  /\ row_i = 1
  /\ proj_rows = <<>>
  /\ result = <<>>

VARIABLES
  cpc,            \* position in the clock step of normalize_run
  n_rows,         \* number of rows of the parsed run
  clock_col,      \* the clock column of the parsed run, <<>> when it has none
  clock_i,        \* position of apply in the column
  clock_out,      \* the column clock_position_deg
  clock_exc       \* the exception that left normalize_run, "" for none

clockVars ==
  <<cpc, n_rows, clock_col, clock_i, clock_out, clock_exc>>

\* normalize_run is not running
ClockIdle ==
  /\ cpc = "idle"
  /\ n_rows = 0
  /\ clock_col = <<>>
  /\ clock_i = 1
  /\ clock_out = <<>>
  /\ clock_exc = ""

VARIABLES
  fpc,            \* position in align_run_to_reference, computed in binary64
  fl_prev,        \* d_prev: weld distances of the previous run, as floats
  fl_later,       \* d_later: weld distances of the later run, as floats
  fl_raw,         \* d_raw: the raw distances of the rows, as cells
  fl_idx,         \* position of the loop in d_raw
  fl_prev_c,      \* prev_c: <<>> for None, else <<cell>>
  fl_corrected,   \* the corrected distances so far, as cells
  fl_flags        \* the rows flagged monotonic_violation

floatVars ==
  <<fpc, fl_prev, fl_later, fl_raw, fl_idx, fl_prev_c, fl_corrected, fl_flags>>

\* align_run_to_reference in binary64 is not running
FloatIdle ==
  /\ fpc = "idle"
  /\ fl_prev = <<>>
  /\ fl_later = <<>>
  /\ fl_raw = <<>>
  /\ fl_idx = 1
  /\ fl_prev_c = <<>>
  /\ fl_corrected = <<>>
  /\ fl_flags = <<>>

vars ==
  <<matchVars, alignVars, schemaVars, runVars, growthVars, projectVars, clockVars, floatVars>>

\* what a step of match_anomalies leaves alone
notMatchVars ==
  <<alignVars, schemaVars, runVars, growthVars, projectVars, clockVars, floatVars>>

\* what a step of align_two_runs leaves alone
notAlignVars ==
  <<matchVars, schemaVars, runVars, growthVars, projectVars, clockVars, floatVars>>

\* what a step of parse_run leaves alone
notSchemaVars ==
  <<matchVars, alignVars, runVars, growthVars, projectVars, clockVars, floatVars>>

\* what a step of the pipeline driver leaves alone
notRunVars ==
  <<matchVars, alignVars, schemaVars, growthVars, projectVars, clockVars, floatVars>>

\* what a step of compute_growth_for_matches leaves alone
notGrowthVars ==
  <<matchVars, alignVars, schemaVars, runVars, projectVars, clockVars, floatVars>>

\* what a step of compute_projections leaves alone
notProjectVars ==
  <<matchVars, alignVars, schemaVars, runVars, growthVars, clockVars, floatVars>>

\* what a step of normalize_run leaves alone
notClockVars ==
  <<matchVars, alignVars, schemaVars, runVars, growthVars, projectVars, floatVars>>

\* what a step of align_run_to_reference in binary64 leaves alone
notFloatVars ==
  <<matchVars, alignVars, schemaVars, runVars, growthVars, projectVars, clockVars>>

(***************************************************************************)
(* match.py: match_anomalies                                               *)
(***************************************************************************)
RECURSIVE FilterSeq(_, _)
\* df[df[col].apply(is_anomaly)].reset_index(drop=True)
FilterSeq(df, k) ==
  IF k > Len(df) THEN <<>>
  ELSE IF is_anomaly(df[k].feature_type) THEN <<df[k]>> \o FilterSeq(df, k + 1)
  ELSE FilterSeq(df, k + 1)

\* mask = (np.abs(dc_prev - d_later) <= axial_tol) & ~np.isnan(dc_prev)
Mask(j, d_later, axial_tol) ==
  Le(AbsDiff(prev[j].distance_corrected_m, d_later), axial_tol)
  /\ ~isna(prev[j].distance_corrected_m)

RECURSIVE GatherCandidates_IgnoreUsed(_, _)
\* variant of GatherCandidates: the "if j in used_prev" test is dropped
GatherCandidates_IgnoreUsed(row_later, j) ==
  IF j > Len(prev) THEN <<>>
  ELSE IF ~Mask(j, row_later.distance_corrected_m, AXIAL_TOL_M) THEN GatherCandidates_IgnoreUsed(row_later, j + 1)
  ELSE IF ~_hard_filter(prev[j], row_later, AXIAL_TOL_M, CLOCK_TOL_DEG) THEN GatherCandidates_IgnoreUsed(row_later, j + 1)
  ELSE <<[s |-> score_match(prev[j], row_later), j |-> j]>> \o GatherCandidates_IgnoreUsed(row_later, j + 1)

RECURSIVE GatherCandidates(_, _)
\* the inner loop over np.where(mask)[0], from previous index j on
GatherCandidates(row_later, j) ==
  IF j > Len(prev) THEN <<>>
  ELSE IF ~Mask(j, row_later.distance_corrected_m, AXIAL_TOL_M) THEN GatherCandidates(row_later, j + 1)
  ELSE IF j \in used_prev THEN GatherCandidates(row_later, j + 1)
  ELSE IF ~_hard_filter(prev[j], row_later, AXIAL_TOL_M, CLOCK_TOL_DEG) THEN GatherCandidates(row_later, j + 1)
  ELSE <<[s |-> score_match(prev[j], row_later), j |-> j]>> \o GatherCandidates(row_later, j + 1)

RECURSIVE InsertByScore(_, _)
InsertByScore(c, sorted) ==
  IF sorted = <<>> THEN <<c>>
  ELSE IF c.s < Head(sorted).s THEN <<c>> \o sorted
  ELSE <<Head(sorted)>> \o InsertByScore(c, Tail(sorted))

\* variant of SortByScore: the list is left in encounter order
SortByScore_Unsorted(cs) ==
  cs

RECURSIVE SortByScore(_)
\* candidates.sort(key=lambda x: x[0]): stable, ascending score
SortByScore(cs) ==
  IF cs = <<>> THEN <<>>
  ELSE InsertByScore(cs[Len(cs)], SortByScore(SubSeq(cs, 1, Len(cs) - 1)))

SortedCandidates(row_later) ==
  SortByScore(GatherCandidates(row_later, 1))

\* variant of IsAmbiguous: <= in place of <
IsAmbiguous_Le(cs, score_epsilon) ==
  Len(cs) >= 2 /\ Abs(cs[2].s - cs[1].s) <= score_epsilon

\* abs(candidates[1][0] - best_s) < score_epsilon
IsAmbiguous(cs, score_epsilon) ==
  Len(cs) >= 2 /\ Abs(cs[2].s - cs[1].s) < score_epsilon

MatchRow(best, k) ==
  LET pr == prev[best.j]
      lr == later[k]
  IN  [prev_idx |-> best.j, later_idx |-> k,
       prev_distance_corrected_m |-> pr.distance_corrected_m,
       later_distance_corrected_m |-> lr.distance_corrected_m,
       delta_distance_m |-> lr.distance_corrected_m - pr.distance_corrected_m,
       prev_depth_percent |-> pr.depth_percent,
       later_depth_percent |-> lr.depth_percent,
       prev_length_mm |-> pr.length_mm, later_length_mm |-> lr.length_mm,
       prev_width_mm |-> pr.width_mm, later_width_mm |-> lr.width_mm,
       score |-> best.s]

\* the alignment variables of a run of match_anomalies alone
AlignIdle ==
  /\ apc = "idle"
  /\ normalized_prev = <<>>
  /\ normalized_later = <<>>
  /\ welds_prev = <<>>
  /\ welds_later = <<>>
  /\ weld_map = <<>>
  /\ aligned_prev = <<>>
  /\ corrected = <<>>
  /\ idx = 1
  /\ prev_c = [n |-> 1, d |-> 0]
  /\ flags = <<>>
  /\ raised = FALSE

\* the matching variables of a run of align_two_runs alone
MatchIdle ==
  /\ pc = "idle"
  /\ df_prev = <<>>
  /\ df_later = <<>>
  /\ prev = <<>>
  /\ later = <<>>
  /\ i = 1
  /\ matches = <<>>
  /\ ambiguous_list = <<>>
  /\ used_prev = {}
  /\ used_later = {}
  /\ new_rows = <<>>
  /\ missing_rows = <<>>

\* nothing but match_anomalies runs
NotMatchIdle ==
  AlignIdle /\ SchemaIdle /\ RunIdle /\ GrowthIdle /\ ProjectIdle /\ ClockIdle /\ FloatIdle

\* nothing but align_two_runs runs
NotAlignIdle ==
  MatchIdle /\ SchemaIdle /\ RunIdle /\ GrowthIdle /\ ProjectIdle /\ ClockIdle /\ FloatIdle

\* nothing but parse_run runs
NotSchemaIdle ==
  MatchIdle /\ AlignIdle /\ RunIdle /\ GrowthIdle /\ ProjectIdle /\ ClockIdle /\ FloatIdle

\* nothing but the pipeline driver runs
NotRunIdle ==
  MatchIdle /\ AlignIdle /\ SchemaIdle /\ GrowthIdle /\ ProjectIdle /\ ClockIdle /\ FloatIdle

\* nothing but compute_growth_for_matches runs
NotGrowthIdle ==
  MatchIdle /\ AlignIdle /\ SchemaIdle /\ RunIdle /\ ProjectIdle /\ ClockIdle /\ FloatIdle

\* nothing but compute_projections runs
NotProjectIdle ==
  MatchIdle /\ AlignIdle /\ SchemaIdle /\ RunIdle /\ GrowthIdle /\ ClockIdle /\ FloatIdle

\* nothing but normalize_run runs
NotClockIdle ==
  MatchIdle /\ AlignIdle /\ SchemaIdle /\ RunIdle /\ GrowthIdle /\ ProjectIdle /\ FloatIdle

\* nothing but align_run_to_reference in binary64 runs
NotFloatIdle ==
  MatchIdle /\ AlignIdle /\ SchemaIdle /\ RunIdle /\ GrowthIdle /\ ProjectIdle /\ ClockIdle

Init ==
  /\ pc = "filter"
  /\ df_prev \in SeqsUpTo(PrevPool, MaxPrev)
  /\ df_later \in SeqsUpTo(LaterPool, MaxLater)
  /\ prev = <<>>
  /\ later = <<>>
  /\ i = 1
  /\ matches = <<>>
  /\ ambiguous_list = <<>>
  /\ used_prev = {}
  /\ used_later = {}
  /\ new_rows = <<>>
  /\ missing_rows = <<>>
  /\ NotMatchIdle

\* lines 153-164: keep the anomalies, reset the indices, empty the tables
FilterAnomalies ==
  /\ pc = "filter"
  /\ prev' = FilterSeq(df_prev, 1)
  /\ later' = FilterSeq(df_later, 1)
  /\ pc' = "loop"
  /\ UNCHANGED <<df_prev, df_later, i, matches, ambiguous_list,
                 used_prev, used_later, new_rows, missing_rows>>
  /\ UNCHANGED notMatchVars

\* lines 167-169: the later row has no corrected distance
SkipUnknownDistance ==
  /\ pc = "loop"
  /\ i <= Len(later)
  /\ isna(later[i].distance_corrected_m)
  /\ i' = i + 1
  /\ UNCHANGED <<pc, df_prev, df_later, prev, later, matches, ambiguous_list,
                 used_prev, used_later, new_rows, missing_rows>>
  /\ UNCHANGED notMatchVars

\* lines 170-181: no candidate survives
NoCandidates ==
  /\ pc = "loop"
  /\ i <= Len(later)
  /\ ~isna(later[i].distance_corrected_m)
  /\ SortedCandidates(later[i]) = <<>>
  /\ i' = i + 1
  /\ UNCHANGED <<pc, df_prev, df_later, prev, later, matches, ambiguous_list,
                 used_prev, used_later, new_rows, missing_rows>>
  /\ UNCHANGED notMatchVars

\* variant of RecordAmbiguous: the "continue" is missing, the best candidate is
\* committed as well
RecordAmbiguous_FallThrough ==
  /\ pc = "loop"
  /\ i <= Len(later)
  /\ ~isna(later[i].distance_corrected_m)
  /\ LET cs == SortedCandidates(later[i])
     IN  /\ cs # <<>>
         /\ IsAmbiguous(cs, MATCH_SCORE_EPSILON)
         /\ ambiguous_list' = Append(ambiguous_list,
              [later_idx |-> i,
               prev_idx_candidate_1 |-> cs[1].j, prev_idx_candidate_2 |-> cs[2].j,
               score_1 |-> cs[1].s, score_2 |-> cs[2].s])
         /\ used_prev' = used_prev \cup {cs[1].j}
         /\ used_later' = used_later \cup {i}
         /\ matches' = Append(matches, MatchRow(cs[1], i))
  /\ i' = i + 1
  /\ UNCHANGED <<pc, df_prev, df_later, prev, later, new_rows, missing_rows>>
  /\ UNCHANGED notMatchVars

\* variant of RecordAmbiguous: the later row is taken out of further
\* consideration, so it is left out of the New table
RecordAmbiguous_MarksLaterUsed ==
  /\ pc = "loop"
  /\ i <= Len(later)
  /\ ~isna(later[i].distance_corrected_m)
  /\ LET cs == SortedCandidates(later[i])
     IN  /\ cs # <<>>
         /\ IsAmbiguous(cs, MATCH_SCORE_EPSILON)
         /\ ambiguous_list' = Append(ambiguous_list,
              [later_idx |-> i,
               prev_idx_candidate_1 |-> cs[1].j, prev_idx_candidate_2 |-> cs[2].j,
               score_1 |-> cs[1].s, score_2 |-> cs[2].s])
         /\ used_later' = used_later \cup {i}
  /\ i' = i + 1
  /\ UNCHANGED <<pc, df_prev, df_later, prev, later, matches,
                 used_prev, new_rows, missing_rows>>
  /\ UNCHANGED notMatchVars

\* lines 182-193: the two best scores are closer than epsilon
RecordAmbiguous ==
  /\ pc = "loop"
  /\ i <= Len(later)
  /\ ~isna(later[i].distance_corrected_m)
  /\ LET cs == SortedCandidates(later[i])
     IN  /\ cs # <<>>
         /\ IsAmbiguous(cs, MATCH_SCORE_EPSILON)
         /\ ambiguous_list' = Append(ambiguous_list,
              [later_idx |-> i,
               prev_idx_candidate_1 |-> cs[1].j, prev_idx_candidate_2 |-> cs[2].j,
               score_1 |-> cs[1].s, score_2 |-> cs[2].s])
  /\ i' = i + 1
  /\ UNCHANGED <<pc, df_prev, df_later, prev, later, matches,
                 used_prev, used_later, new_rows, missing_rows>>
  /\ UNCHANGED notMatchVars

\* variant of CommitMatch: used_prev.add(best_j) is missing
CommitMatch_NoUsedPrev ==
  /\ pc = "loop"
  /\ i <= Len(later)
  /\ ~isna(later[i].distance_corrected_m)
  /\ LET cs == SortedCandidates(later[i])
     IN  /\ cs # <<>>
         /\ ~IsAmbiguous(cs, MATCH_SCORE_EPSILON)
         /\ used_later' = used_later \cup {i}
         /\ matches' = Append(matches, MatchRow(cs[1], i))
  /\ i' = i + 1
  /\ UNCHANGED <<pc, df_prev, df_later, prev, later, ambiguous_list,
                 used_prev, new_rows, missing_rows>>
  /\ UNCHANGED notMatchVars

\* lines 194-217: commit the best candidate
CommitMatch ==
  /\ pc = "loop"
  /\ i <= Len(later)
  /\ ~isna(later[i].distance_corrected_m)
  /\ LET cs == SortedCandidates(later[i])
     IN  /\ cs # <<>>
         /\ ~IsAmbiguous(cs, MATCH_SCORE_EPSILON)
         /\ used_prev' = used_prev \cup {cs[1].j}
         /\ used_later' = used_later \cup {i}
         /\ matches' = Append(matches, MatchRow(cs[1], i))
  /\ i' = i + 1
  /\ UNCHANGED <<pc, df_prev, df_later, prev, later, ambiguous_list,
                 new_rows, missing_rows>>
  /\ UNCHANGED notMatchVars

RECURSIVE IndicesNotIn(_, _, _)
\* [k for k in range(n) if k not in used]
IndicesNotIn(k, n, used) ==
  IF k > n THEN <<>>
  ELSE IF k \notin used THEN <<k>> \o IndicesNotIn(k + 1, n, used)
  ELSE IndicesNotIn(k + 1, n, used)

\* variant of BuildTables: New is built from used_prev
BuildTables_NewFromUsedPrev ==
  /\ pc = "loop"
  /\ i > Len(later)
  /\ new_rows' = IndicesNotIn(1, Len(later), used_prev)
  /\ missing_rows' = IndicesNotIn(1, Len(prev), used_prev)
  /\ pc' = "done"
  /\ UNCHANGED <<df_prev, df_later, prev, later, i, matches,
                 ambiguous_list, used_prev, used_later>>
  /\ UNCHANGED notMatchVars

\* variant of BuildTables: the Missing table taken from the later run's
\* exclusion set instead of the previous run's
BuildTables_MissingFromUsedLater ==
  /\ pc = "loop"
  /\ i > Len(later)
  /\ new_rows' = IndicesNotIn(1, Len(later), used_later)
  /\ missing_rows' = IndicesNotIn(1, Len(prev), used_later)
  /\ pc' = "done"
  /\ UNCHANGED <<df_prev, df_later, prev, later, i, matches,
                 ambiguous_list, used_prev, used_later>>
  /\ UNCHANGED notMatchVars

\* lines 219-223: the loop is over, build the New and Missing tables
BuildTables ==
  /\ pc = "loop"
  /\ i > Len(later)
  /\ new_rows' = IndicesNotIn(1, Len(later), used_later)
  /\ missing_rows' = IndicesNotIn(1, Len(prev), used_prev)
  /\ pc' = "done"
  /\ UNCHANGED <<df_prev, df_later, prev, later, i, matches,
                 ambiguous_list, used_prev, used_later>>
  /\ UNCHANGED notMatchVars


(***************************************************************************)
(* align.py: align_run_to_reference, align_two_runs                        *)
(***************************************************************************)
\* prev_c = None
None ==
  [n |-> 1, d |-> 0]

RECURSIVE FindSegment_NoClampAfter(_, _, _, _)
\* variant of FindSegment: a distance after the last weld falls into the
\* first segment
FindSegment_NoClampAfter(d, d_later, n, k) ==
  IF k > n - 1 THEN 1
  ELSE IF Le(d_later[k], d) /\ Le(d, d_later[k + 1]) THEN k
  ELSE IF Lt(d, d_later[1]) THEN 1
  ELSE IF Gt(d, d_later[n]) THEN 1
  ELSE FindSegment_NoClampAfter(d, d_later, n, k + 1)

RECURSIVE FindSegment(_, _, _, _)
\* the loop "for i in range(n - 1)" from i = k - 1 on; seg_idx stays 0 when
\* no test succeeds (segments are 1-based here)
FindSegment(d, d_later, n, k) ==
  IF k > n - 1 THEN 1
  ELSE IF Le(d_later[k], d) /\ Le(d, d_later[k + 1]) THEN k
  ELSE IF Lt(d, d_later[1]) THEN 1
  ELSE IF Gt(d, d_later[n]) THEN n - 1
  ELSE FindSegment(d, d_later, n, k + 1)

\* c < prev_c - 1e-9
BelowByMoreThanTol(c, p) ==
  LET diff == QSub(p, c)
  IN  diff.n > 0 /\ MONOTONIC_TOL_INV > diff.d \div diff.n

\* df[dist_col] as floats
RawColumn(df) ==
  [k \in 1..Len(df) |-> ToQ(df[k].distance_raw_m)]

\* line 222: len(welds_prev) < 2 or len(welds_later) < 2
TooFewWelds_And(wp, wl) ==
  Len(wp) < 2 /\ Len(wl) < 2

TooFewWelds(wp, wl) ==
  Len(wp) < 2 \/ Len(wl) < 2

\* lines 220-221
GetWelds ==
  /\ apc = "get_welds"
  /\ welds_prev' = get_welds(normalized_prev)
  /\ welds_later' = get_welds(normalized_later)
  /\ apc' = "welds"
  /\ UNCHANGED <<normalized_prev, normalized_later, weld_map, aligned_prev,
                 corrected, idx, prev_c, flags, raised>>
  /\ UNCHANGED notAlignVars

\* lines 222-227: fewer than two welds in a run, no transform
IdentityFallback ==
  /\ apc = "welds"
  /\ TooFewWelds(welds_prev, welds_later)
  /\ aligned_prev' = RawColumn(normalized_prev)
  /\ corrected' = RawColumn(normalized_later)
  /\ weld_map' = <<>>
  /\ flags' = <<>>
  /\ apc' = "done"
  /\ UNCHANGED <<normalized_prev, normalized_later, welds_prev, welds_later,
                 idx, prev_c, raised>>
  /\ UNCHANGED notAlignVars

\* lines 228-230 and 168-179: the weld map, the reference run, and the start
\* of align_run_to_reference
BuildWeldMap ==
  /\ apc = "welds"
  /\ ~TooFewWelds(welds_prev, welds_later)
  /\ weld_map' = build_weld_map(welds_prev, welds_later)
  /\ aligned_prev' = RawColumn(normalized_prev)
  /\ IF Min(Len(welds_prev), Len(welds_later)) < 2
     THEN /\ corrected' = RawColumn(normalized_later)
          /\ apc' = "done"
     ELSE /\ corrected' = <<>>
          /\ apc' = "loop"
  /\ idx' = 1
  /\ prev_c' = None
  /\ flags' = <<>>
  /\ UNCHANGED <<normalized_prev, normalized_later, welds_prev, welds_later, raised>>
  /\ UNCHANGED notAlignVars

\* lines 180-183: a row without a raw distance
AlignSkipUnknown ==
  /\ apc = "loop"
  /\ idx <= Len(normalized_later)
  /\ isna(normalized_later[idx].distance_raw_m)
  /\ corrected' = Append(corrected, QNaN)
  /\ idx' = idx + 1
  /\ UNCHANGED <<apc, normalized_prev, normalized_later, welds_prev, welds_later,
                 weld_map, aligned_prev, prev_c, flags, raised>>
  /\ UNCHANGED notAlignVars

\* lines 184-203: find the segment, transform, flag a monotonic violation
AlignRow ==
  /\ apc = "loop"
  /\ idx <= Len(normalized_later)
  /\ ~isna(normalized_later[idx].distance_raw_m)
  /\ LET d       == normalized_later[idx].distance_raw_m
         n       == Min(Len(welds_prev), Len(welds_later))
         seg_idx == FindSegment(d, welds_later, n, 1)
     IN  IF seg_idx + 1 > Len(welds_later) \/ seg_idx + 1 > Len(welds_prev)
         THEN /\ raised' = TRUE
              /\ apc' = "done"
              /\ UNCHANGED <<corrected, flags, prev_c, idx>>
         ELSE LET c == _segment_transform(welds_later[seg_idx], welds_later[seg_idx + 1],
                                          welds_prev[seg_idx], welds_prev[seg_idx + 1], d)[1]
              IN  /\ corrected' = Append(corrected, c)
                  /\ flags' = IF prev_c # None /\ prev_c # QNaN /\ c # QNaN
                                 /\ BelowByMoreThanTol(c, prev_c)
                              THEN Append(flags, [row |-> idx, reason |-> "monotonic_violation",
                                                  prev |-> prev_c, curr |-> c])
                              ELSE flags
                  /\ prev_c' = c
                  /\ idx' = idx + 1
                  /\ UNCHANGED <<apc, raised>>
  /\ UNCHANGED <<normalized_prev, normalized_later, welds_prev, welds_later,
                 weld_map, aligned_prev>>
  /\ UNCHANGED notAlignVars

\* lines 204-206 and 234
AlignReturn ==
  /\ apc = "loop"
  /\ idx > Len(normalized_later)
  /\ apc' = "done"
  /\ UNCHANGED <<normalized_prev, normalized_later, welds_prev, welds_later,
                 weld_map, aligned_prev, corrected, idx, prev_c, flags, raised>>
  /\ UNCHANGED notAlignVars

(***************************************************************************)
(* schema.py: header normalisation and mapping                             *)
(***************************************************************************)
JOINT_NUMBER ==
  "joint_number"

DISTANCE_ALONG_LINE ==
  "distance_along_line"

DIST_TO_US_WELD ==
  "dist_to_us_weld"

DIST_TO_DS_WELD ==
  "dist_to_ds_weld"

FEATURE_TYPE ==
  "feature_type"

DEPTH_PERCENT ==
  "depth_percent"

LENGTH_IN ==
  "length_in"

WIDTH_IN ==
  "width_in"

CLOCK ==
  "clock"

RUN_YEAR ==
  "run_year"

ROW_INDEX ==
  "row_index"

REQUIRED_CANONICAL ==
  <<JOINT_NUMBER, DISTANCE_ALONG_LINE, FEATURE_TYPE>>

RECOMMENDED_CANONICAL ==
  <<DIST_TO_US_WELD, DEPTH_PERCENT, LENGTH_IN, WIDTH_IN, CLOCK>>

\* Tokens of the regular expressions of HEADER_PATTERNS: one character, an
\* optional character (x? or [..]?), \s*, .* and \b.
Lit(c) ==
  [t |-> "lit", cs |-> {c}]

Opt(chars) ==
  [t |-> "opt", cs |-> chars]

Ws ==
  [t |-> "ws", cs |-> {" "}]

AnyStar ==
  [t |-> "any", cs |-> {}]

WordB ==
  [t |-> "wb", cs |-> {}]

HEADER_PATTERNS ==
  << [canon |-> JOINT_NUMBER,
      alts |-> <<
           << Lit("j"), Lit("o"), Lit("i"), Lit("n"), Lit("t"), Ws, Lit("n"), Lit("u"), Lit("m"), Lit("b"), Lit("e"), Lit("r") >>,
           << Lit("j"), Opt({"."}), Ws, Lit("n"), Lit("o"), Opt({"."}) >> >>],
     [canon |-> DISTANCE_ALONG_LINE,
      alts |-> <<
           << Lit("l"), Lit("o"), Lit("g"), Ws, Lit("d"), Lit("i"), Lit("s"), Lit("t") >>,
           << Lit("w"), Lit("h"), Lit("e"), Lit("e"), Lit("l"), Ws, Lit("c"), Lit("o"), Lit("u"), Lit("n"), Lit("t") >>,
           << Lit("i"), Lit("l"), Lit("i"), Ws, Lit("w"), Lit("h"), Lit("e"), Lit("e"), Lit("l") >>,
           << Lit("o"), Lit("d"), Lit("o"), Lit("m"), Lit("e"), Lit("t"), Lit("e"), Lit("r") >>,
           << Lit("d"), Lit("i"), Lit("s"), Lit("t"), Lit("a"), Lit("n"), Lit("c"), Lit("e"), Ws, Lit("a"), Lit("l"), Lit("o"), Lit("n"), Lit("g") >> >>],
     [canon |-> DIST_TO_US_WELD,
      alts |-> <<
           << Lit("t"), Lit("o"), Ws, Lit("u"), Opt({"/"}), Lit("s"), Ws, Lit("w"), Opt({"."}) >>,
           << Lit("d"), Lit("i"), Lit("s"), Lit("t"), AnyStar, Lit("u"), Opt({"/"}), Lit("s"), Ws, Lit("g"), Lit("w") >>,
           << Lit("d"), Lit("i"), Lit("s"), Lit("t"), Lit("a"), Lit("n"), Lit("c"), Lit("e"), Ws, Lit("t"), Lit("o"), Ws, Lit("u"), Opt({"/"}), Lit("s") >> >>],
     [canon |-> DIST_TO_DS_WELD,
      alts |-> <<
           << Lit("t"), Lit("o"), Ws, Lit("d"), Opt({"/"}), Lit("s"), Ws, Lit("w"), Opt({"."}) >>,
           << Lit("d"), Lit("i"), Lit("s"), Lit("t"), AnyStar, Lit("d"), Opt({"/"}), Lit("s"), Ws, Lit("g"), Lit("w") >>,
           << Lit("d"), Lit("i"), Lit("s"), Lit("t"), Lit("a"), Lit("n"), Lit("c"), Lit("e"), Ws, Lit("t"), Lit("o"), Ws, Lit("d"), Opt({"/"}), Lit("s") >> >>],
     [canon |-> FEATURE_TYPE,
      alts |-> <<
           << WordB, Lit("e"), Lit("v"), Lit("e"), Lit("n"), Lit("t"), WordB >>,
           << Lit("e"), Lit("v"), Lit("e"), Lit("n"), Lit("t"), Ws, Lit("d"), Lit("e"), Lit("s"), Lit("c") >>,
           << Lit("f"), Lit("e"), Lit("a"), Lit("t"), Lit("u"), Lit("r"), Lit("e"), Ws, Lit("t"), Lit("y"), Lit("p"), Lit("e") >>,
           << Lit("e"), Lit("v"), Lit("e"), Lit("n"), Lit("t"), Ws, Lit("d"), Lit("e"), Lit("s"), Lit("c"), Lit("r"), Lit("i"), Lit("p"), Lit("t"), Lit("i"), Lit("o"), Lit("n") >> >>],
     [canon |-> DEPTH_PERCENT,
      alts |-> <<
           << Lit("m"), Lit("e"), Lit("t"), Lit("a"), Lit("l"), Ws, Lit("l"), Lit("o"), Lit("s"), Lit("s"), Ws, Lit("d"), Lit("e"), Lit("p"), Lit("t"), Lit("h") >>,
           << Lit("d"), Lit("e"), Lit("p"), Lit("t"), Lit("h"), Ws, Opt({"["}), Ws, Lit("%") >>,
           << Lit("d"), Lit("e"), Lit("p"), Lit("t"), Lit("h"), Ws, Lit("p"), Lit("e"), Lit("r"), Lit("c"), Lit("e"), Lit("n"), Lit("t") >> >>],
     [canon |-> LENGTH_IN,
      alts |-> <<
           << Lit("l"), Lit("e"), Lit("n"), Lit("g"), Lit("t"), Lit("h"), Ws, Opt({"["}), Ws, Lit("i"), Lit("n") >>,
           << Lit("l"), Lit("e"), Lit("n"), Lit("g"), Lit("t"), Lit("h"), Ws, Lit("[") >> >>],
     [canon |-> WIDTH_IN,
      alts |-> <<
           << Lit("w"), Lit("i"), Lit("d"), Lit("t"), Lit("h"), Ws, Opt({"["}), Ws, Lit("i"), Lit("n") >>,
           << Lit("w"), Lit("i"), Lit("d"), Lit("t"), Lit("h"), Ws, Lit("[") >> >>],
     [canon |-> CLOCK,
      alts |-> <<
           << Lit("o"), Opt({"'"}), Lit("c"), Lit("l"), Lit("o"), Lit("c"), Lit("k") >>,
           << Lit("c"), Lit("l"), Lit("o"), Lit("c"), Lit("k"), Ws, Lit("[") >>,
           << Lit("h"), Lit("h"), Ws, Lit(":"), Ws, Lit("m"), Lit("m") >> >>] >>

\* the characters \w matches
WordChars ==
  {LowerCase[k] : k \in 1..Len(LowerCase)} \cup {UpperCase[k] : k \in 1..Len(UpperCase)}
    \cup {"0", "1", "2", "3", "4", "5", "6", "7", "8", "9", "_"}

\* \b at position pos of s: a word character on exactly one side
WordBoundary(s, pos) ==
  LET before == pos > 1 /\ s[pos - 1] \in WordChars
      after  == pos <= Len(s) /\ s[pos] \in WordChars
  IN  before # after

RECURSIVE MatchAt(_, _, _, _)
\* the tokens toks[ti..] match s from position pos on
MatchAt(toks, ti, s, pos) ==
  IF ti > Len(toks) THEN TRUE
  ELSE LET tk == toks[ti]
       IN  CASE tk.t = "lit" ->
                  pos <= Len(s) /\ s[pos] \in tk.cs /\ MatchAt(toks, ti + 1, s, pos + 1)
             [] tk.t = "opt" ->
                  \/ pos <= Len(s) /\ s[pos] \in tk.cs /\ MatchAt(toks, ti + 1, s, pos + 1)
                  \/ MatchAt(toks, ti + 1, s, pos)
             [] tk.t = "ws" ->
                  \/ pos <= Len(s) /\ s[pos] \in tk.cs /\ MatchAt(toks, ti, s, pos + 1)
                  \/ MatchAt(toks, ti + 1, s, pos)
             [] tk.t = "any" ->
                  \/ pos <= Len(s) /\ MatchAt(toks, ti, s, pos + 1)
                  \/ MatchAt(toks, ti + 1, s, pos)
             [] tk.t = "wb" ->
                  WordBoundary(s, pos) /\ MatchAt(toks, ti + 1, s, pos)

\* re.search(pat, h): some alternative matches at some position
re_search(alts, h) ==
  \E a \in 1..Len(alts) : \E pos \in 1..(Len(h) + 1) : MatchAt(alts[a], 1, h, pos)

\* .replace("\n", " ").replace("\r", " ")
ReplaceBreaks(s) ==
  [k \in 1..Len(s) |-> IF s[k] \in {"\n", "\r"} THEN " " ELSE s[k]]

RECURSIVE CollapseSpaces(_)
\* re.sub(r"\s+", " ", s)
CollapseSpaces(s) ==
  IF Len(s) < 2 THEN s
  ELSE IF s[1] = " " /\ s[2] = " " THEN CollapseSpaces(Tail(s))
  ELSE <<s[1]>> \o CollapseSpaces(Tail(s))

\* normalize_header on the characters of a header
normalize_header(h) ==
  CollapseSpaces(Lower(Strip(ReplaceBreaks(h))))

\* infer_unit_from_header on the characters of a header
infer_unit_from_header(header) ==
  LET h == normalize_header(header)
  IN  IF \/ Contains(h, <<"[", "f", "t", "]">>) \/ Contains(h, <<"f", "t", "]">>)
         \/ Contains(h, <<"f", "t", "\\", ".">>) \/ Contains(h, <<"f", "t", ".">>)
      THEN "ft"
      ELSE IF Contains(h, <<"[", "i", "n", "]">>) \/ Contains(h, <<"i", "n", "]">>)
      THEN "in"
      ELSE IF Contains(h, <<"[", "%", "]">>) \/ Contains(h, <<"%", "]">>)
      THEN "percent"
      ELSE "unknown"

\* map_header_to_canonical returns None
Unmapped ==
  [canon |-> "", unit |-> ""]

RECURSIVE FirstPattern(_, _)
\* the loop over HEADER_PATTERNS from pattern k on: the first that matches
FirstPattern(h, k) ==
  IF k > Len(HEADER_PATTERNS) THEN ""
  ELSE IF re_search(HEADER_PATTERNS[k].alts, h) THEN HEADER_PATTERNS[k].canon
  ELSE FirstPattern(h, k + 1)

\* map_header_to_canonical on the characters of a header
MapHeaderChars(header) ==
  LET h == normalize_header(header)
      canon == FirstPattern(h, 1)
  IN  IF h = <<>> \/ canon = "" THEN Unmapped
      ELSE [canon |-> canon, unit |-> infer_unit_from_header(header)]

\* The headers of the model's sheets, spelled as character sequences.
HeaderChars ==
  ("J. no." :> <<"J", ".", " ", "n", "o", ".">>) @@
  ("Joint Number" :> <<"J", "o", "i", "n", "t", " ", "N", "u", "m", "b", "e", "r">>) @@
  ("Log Dist. [ft]" :> <<"L", "o", "g", " ", "D", "i", "s", "t", ".", " ", "[", "f", "t", "]">>) @@
  ("Event\nDescription" :> <<"E", "v", "e", "n", "t", "\n", "D", "e", "s", "c", "r", "i", "p", "t", "i", "o", "n">>) @@
  ("Depth [%]" :> <<"D", "e", "p", "t", "h", " ", "[", "%", "]">>) @@
  ("to u/s w. [ft]" :> <<"t", "o", " ", "u", "/", "s", " ", "w", ".", " ", "[", "f", "t", "]">>) @@
  ("Comments" :> <<"C", "o", "m", "m", "e", "n", "t", "s">>)

\* map_header_to_canonical, tabulated over the headers of the model
HeaderMapTable ==
  [h \in DOMAIN HeaderChars |-> MapHeaderChars(HeaderChars[h])]

map_header_to_canonical(header) ==
  HeaderMapTable[header]

\* lines 114-117: the entry of one column, none when the header maps to nothing
MappedColumn(col, mapped) ==
  IF mapped # Unmapped
  THEN <<[orig |-> col, canon |-> mapped.canon, unit |-> mapped.unit]>>
  ELSE <<>>

RECURSIVE discover_and_map_sheet(_, _)
\* the mapped columns, in column order, from column k on
discover_and_map_sheet(cols, k) ==
  IF k > Len(cols) THEN <<>>
  ELSE MappedColumn(cols[k], map_header_to_canonical(cols[k]))
         \o discover_and_map_sheet(cols, k + 1)

RECURSIVE FirstPerCanon(_, _, _)
\* lines 129-136: the first column of each canonical field
FirstPerCanon(discovered, k, seen_canon) ==
  IF k > Len(discovered) THEN <<>>
  ELSE IF discovered[k].canon \notin seen_canon
       THEN <<discovered[k]>> \o FirstPerCanon(discovered, k + 1, seen_canon \cup {discovered[k].canon})
  ELSE FirstPerCanon(discovered, k + 1, seen_canon)

\* rename.values()
RenameValues(rn) ==
  {rn[k].canon : k \in 1..Len(rn)}

\* variant of MissingFrom: every field is reported missing
MissingFrom_All(fields, rn) ==
  fields

\* [c for c in fields if c not in rename.values()]
MissingFrom(fields, rn) ==
  SelectSeq(fields, LAMBDA c : c \notin RenameValues(rn))

\* lines 137-139: the result of build_column_map for the rename rn
ColumnMapOf(rn) ==
  [rename |-> rn,
   missing_req |-> MissingFrom(REQUIRED_CANONICAL, rn),
   missing_rec |-> MissingFrom(RECOMMENDED_CANONICAL, rn)]

build_column_map(cols) ==
  ColumnMapOf(FirstPerCanon(discover_and_map_sheet(cols, 1), 1, {}))

\* df.rename(columns=rename): the header of one column afterwards
Renamed(rn, col) ==
  IF \E k \in 1..Len(rn) : rn[k].orig = col
  THEN rn[CHOOSE k \in 1..Len(rn) : rn[k].orig = col].canon
  ELSE col

\* parse_run as a function of the sheet: the error raised or the table and
\* schema_info returned
\* lines 150-165: what parse_run does with the column map m
ParseResult(cols, year, m) ==
  IF m.missing_req # <<>>
  THEN [error |-> <<[sheet |-> year, missing |-> m.missing_req, available |-> cols]>>,
        out |-> <<>>, info |-> <<>>]
  ELSE [error |-> <<>>,
        out |-> [k \in 1..Len(cols) |-> Renamed(m.rename, cols[k])] \o <<RUN_YEAR, ROW_INDEX>>,
        info |-> <<[sheet |-> year, year |-> year, column_map |-> m.rename,
                    missing_recommended |-> m.missing_rec]>>]

parse_run(cols, year) ==
  ParseResult(cols, year, build_column_map(cols))

(***************************************************************************)
(* schema.py: parse_run, step by step                                      *)
(***************************************************************************)
MaxHeaders ==
  3

\* the sheets: up to MaxHeaders different headers in any order
Sheets ==
  {c \in SeqsUpTo(DOMAIN HeaderChars, MaxHeaders) :
     \A a, b \in 1..Len(c) : a # b => c[a] # c[b]}

\* the years a run can have
YearPool ==
  {2007, 2015, 2022}

\* line 149
BuildColumnMap ==
  /\ spc = "start"
  /\ LET m == build_column_map(columns)
     IN  /\ rename' = m.rename
         /\ missing_req' = m.missing_req
         /\ missing_rec' = m.missing_rec
  /\ spc' = "mapped"
  /\ UNCHANGED <<columns, sheet_year, parse_error, out_columns, schema_info>>
  /\ UNCHANGED notSchemaVars

\* lines 150-154: raise ValueError
ParseRaise ==
  /\ spc = "mapped"
  /\ missing_req # <<>>
  /\ parse_error' = <<[sheet |-> sheet_year, missing |-> missing_req, available |-> columns]>>
  /\ spc' = "raised"
  /\ UNCHANGED <<columns, sheet_year, rename, missing_req, missing_rec, out_columns, schema_info>>
  /\ UNCHANGED notSchemaVars

\* lines 155-165: rename the columns, add run_year and row_index, return
ParseReturn ==
  /\ spc = "mapped"
  /\ missing_req = <<>>
  /\ out_columns' = [k \in 1..Len(columns) |-> Renamed(rename, columns[k])] \o <<RUN_YEAR, ROW_INDEX>>
  /\ schema_info' = <<[sheet |-> sheet_year, year |-> sheet_year, column_map |-> rename,
                       missing_recommended |-> missing_rec]>>
  /\ spc' = "returned"
  /\ UNCHANGED <<columns, sheet_year, rename, missing_req, missing_rec, parse_error>>
  /\ UNCHANGED notSchemaVars

InitSchema ==
  /\ spc = "start"
  /\ columns \in Sheets
  /\ sheet_year \in YearPool
  /\ rename = <<>>
  /\ missing_req = <<>>
  /\ missing_rec = <<>>
  /\ parse_error = <<>>
  /\ out_columns = <<>>
  /\ schema_info = <<>>
  /\ NotSchemaIdle

NextSchema ==
  \/ BuildColumnMap
  \/ ParseRaise
  \/ ParseReturn

SpecSchema ==
  InitSchema /\ [][NextSchema]_vars

(***************************************************************************)
(* run_ili.py: main, run_stretch, run_multirun, run_mvp, with              *)
(* schema.py: load_and_parse_runs, write_schema_report                     *)
(***************************************************************************)
MaxRuns ==
  3

\* --runs: one or more years (nargs="+")
RunLists ==
  {r \in SeqsUpTo(YearPool, MaxRuns) : Len(r) >= 1}

\* the sheets a workbook of the model can hold: two that map every required
\* field and one that lacks distance_along_line and feature_type
RunSheets ==
  {<<"J. no.", "Log Dist. [ft]", "Event\nDescription">>,
   <<"Event\nDescription", "Depth [%]", "Joint Number", "Log Dist. [ft]">>,
   <<"J. no.", "Depth [%]", "Comments">>}

\* the workbooks: each year of YearPool has a sheet or not
Workbooks ==
  UNION {[D -> RunSheets] : D \in SUBSET YearPool}

\* prev_year, later_year = sorted(run_years)
prev_year ==
  IF run_years[1] <= run_years[2] THEN run_years[1] ELSE run_years[2]

later_year ==
  IF run_years[1] <= run_years[2] THEN run_years[2] ELSE run_years[1]

\* variant of ParsedBoth: one parsed run is enough
ParsedBoth_Any(p) ==
  Cardinality(DOMAIN p) >= 1

\* variant of ParsedBoth: the test is len(parsed) > 2
ParsedBoth_AtMostTwo(p) ==
  Cardinality(DOMAIN p) <= 2

\* not (len(parsed) != 2)
ParsedBoth(p) ==
  Cardinality(DOMAIN p) = 2

\* report["runs"][str(year)] = entry
SetRun(rep, year, entry, errs) ==
  [rep EXCEPT !.runs = (year :> entry) @@ rep.runs,
              !.errors = rep.errors \o errs]

\* the tables of all_tables
TableNames ==
  {"WeldMap", "Matches", "New", "Missing", "Ambiguous"}

\* main, lines 206-210
Main ==
  /\ rpc = "main"
  /\ \/ mode = "mvp" /\ rpc' = "run_mvp" /\ run_years' = args_runs
     \/ mode = "multirun" /\ rpc' = "run_multirun" /\ run_years' = run_years
     \/ mode = "stretch" /\ rpc' = "run_stretch" /\ run_years' = run_years
  /\ UNCHANGED <<mode, args_runs, workbook, year_i, parsed, report, report_file,
                 stages, tables_written, rc>>
  /\ UNCHANGED notRunVars

\* run_stretch, lines 181-184
RunStretch ==
  /\ rpc = "run_stretch"
  /\ IF Len(args_runs) = 2
     THEN rpc' = "run_mvp" /\ run_years' = args_runs
     ELSE rpc' = "run_multirun" /\ run_years' = run_years
  /\ UNCHANGED <<mode, args_runs, workbook, year_i, parsed, report, report_file,
                 stages, tables_written, rc>>
  /\ UNCHANGED notRunVars

\* run_multirun, lines 170-172
MultirunTooFew ==
  /\ rpc = "run_multirun"
  /\ Len(args_runs) < 2
  /\ rc' = 1
  /\ rpc' = "done"
  /\ UNCHANGED <<mode, args_runs, run_years, workbook, year_i, parsed, report,
                 report_file, stages, tables_written>>
  /\ UNCHANGED notRunVars

\* run_multirun, lines 173-175
MultirunCallMvp ==
  /\ rpc = "run_multirun"
  /\ Len(args_runs) >= 2
  /\ run_years' = IF Len(args_runs) = 2 THEN args_runs ELSE SubSeq(args_runs, 1, 2)
  /\ rpc' = "run_mvp"
  /\ UNCHANGED <<mode, args_runs, workbook, year_i, parsed, report, report_file,
                 stages, tables_written, rc>>
  /\ UNCHANGED notRunVars

\* run_mvp, lines 48-50
WrongRunCount ==
  /\ rpc = "run_mvp"
  /\ Len(run_years) # 2
  /\ rc' = 1
  /\ rpc' = "done"
  /\ UNCHANGED <<mode, args_runs, run_years, workbook, year_i, parsed, report,
                 report_file, stages, tables_written>>
  /\ UNCHANGED notRunVars

\* run_mvp line 54 and load_and_parse_runs lines 191-202
StartLoad ==
  /\ rpc = "run_mvp"
  /\ Len(run_years) = 2
  /\ report' = <<[run_years_requested |-> run_years, runs |-> <<>>, errors |-> <<>>,
                  parse_failure_message |-> FALSE]>>
  /\ parsed' = <<>>
  /\ year_i' = 1
  /\ rpc' = "loading"
  /\ UNCHANGED <<mode, args_runs, run_years, workbook, report_file, stages,
                 tables_written, rc>>
  /\ UNCHANGED notRunVars

\* load_and_parse_runs, lines 205-212
SheetNotFound ==
  /\ rpc = "loading"
  /\ year_i <= Len(run_years)
  /\ run_years[year_i] \notin DOMAIN workbook
  /\ LET year == run_years[year_i]
         e == [sheet |-> year, not_found |-> TRUE]
     IN  report' = <<SetRun(report[1], year,
                            [sheet_found |-> FALSE, error |-> <<e>>, info |-> <<>>], <<e>>)>>
  /\ year_i' = year_i + 1
  /\ UNCHANGED <<rpc, mode, args_runs, run_years, workbook, parsed, report_file,
                 stages, tables_written, rc>>
  /\ UNCHANGED notRunVars

\* load_and_parse_runs, lines 213-222
LoadParsed ==
  /\ rpc = "loading"
  /\ year_i <= Len(run_years)
  /\ run_years[year_i] \in DOMAIN workbook
  /\ LET year == run_years[year_i]
         r == parse_run(workbook[year], year)
     IN  /\ r.error = <<>>
         /\ parsed' = (year :> r.out) @@ parsed
         /\ report' = <<SetRun(report[1], year,
                               [sheet_found |-> TRUE, error |-> <<>>, info |-> r.info], <<>>)>>
  /\ year_i' = year_i + 1
  /\ UNCHANGED <<rpc, mode, args_runs, run_years, workbook, report_file, stages,
                 tables_written, rc>>
  /\ UNCHANGED notRunVars

\* load_and_parse_runs, lines 213-215 and 223-229
LoadParseError ==
  /\ rpc = "loading"
  /\ year_i <= Len(run_years)
  /\ run_years[year_i] \in DOMAIN workbook
  /\ LET year == run_years[year_i]
         r == parse_run(workbook[year], year)
     IN  /\ r.error # <<>>
         /\ report' = <<SetRun(report[1], year,
                               [sheet_found |-> TRUE, error |-> r.error, info |-> <<>>],
                               r.error)>>
  /\ year_i' = year_i + 1
  /\ UNCHANGED <<rpc, mode, args_runs, run_years, workbook, parsed, report_file,
                 stages, tables_written, rc>>
  /\ UNCHANGED notRunVars

\* load_and_parse_runs, lines 231-239
FinishLoad ==
  /\ rpc = "loading"
  /\ year_i > Len(run_years)
  /\ report' = <<[report[1] EXCEPT !.parse_failure_message =
                    Cardinality(DOMAIN parsed) # Len(run_years)]>>
  /\ rpc' = "loaded"
  /\ UNCHANGED <<mode, args_runs, run_years, workbook, year_i, parsed, report_file,
                 stages, tables_written, rc>>
  /\ UNCHANGED notRunVars

\* run_mvp, lines 55-57
ParseIncomplete ==
  /\ rpc = "loaded"
  /\ ~ParsedBoth(parsed)
  /\ rc' = 1
  /\ rpc' = "done"
  /\ UNCHANGED <<mode, args_runs, run_years, workbook, year_i, parsed, report,
                 report_file, stages, tables_written>>
  /\ UNCHANGED notRunVars

\* run_mvp, lines 59-61
WriteSchemaReport ==
  /\ rpc = "loaded"
  /\ ParsedBoth(parsed)
  /\ report_file' = report
  /\ rpc' = "reported"
  /\ UNCHANGED <<mode, args_runs, run_years, workbook, year_i, parsed, report,
                 stages, tables_written, rc>>
  /\ UNCHANGED notRunVars

\* one stage of run_mvp on the two runs
RunStage(from, name, to) ==
  /\ rpc = from
  /\ stages' = Append(stages, [stage |-> name, prev |-> prev_year, later |-> later_year])
  /\ rpc' = to
  /\ UNCHANGED <<mode, args_runs, run_years, workbook, year_i, parsed, report,
                 report_file, tables_written, rc>>
  /\ UNCHANGED notRunVars

\* run_mvp, line 64
Normalize ==
  RunStage("reported", "normalize", "normalized")

\* run_mvp, line 67
Align ==
  RunStage("normalized", "align", "aligned")

\* run_mvp, lines 70-71
Match ==
  RunStage("aligned", "match", "matched")

\* run_mvp, lines 74-75
Growth ==
  RunStage("matched", "growth", "grown")

\* run_mvp, lines 121-164: for each table with rows a CSV and its _human.csv,
\* then summary.json and output.xlsx; validation; return 0
WriteOutputs ==
  /\ rpc = "grown"
  /\ \E nonempty \in SUBSET TableNames :
       tables_written' = nonempty \cup {"summary.json", "output.xlsx"}
  /\ rc' = 0
  /\ rpc' = "done"
  /\ UNCHANGED <<mode, args_runs, run_years, workbook, year_i, parsed, report,
                 report_file, stages>>
  /\ UNCHANGED notRunVars

InitRun ==
  /\ rpc = "main"
  /\ mode \in {"mvp", "multirun", "stretch"}
  /\ args_runs \in RunLists
  /\ run_years = <<>>
  /\ workbook \in Workbooks
  /\ year_i = 1
  /\ parsed = <<>>
  /\ report = <<>>
  /\ report_file = <<>>
  /\ stages = <<>>
  /\ tables_written = {}
  /\ rc = -1
  /\ NotRunIdle

NextRun ==
  \/ Main
  \/ RunStretch
  \/ MultirunTooFew
  \/ MultirunCallMvp
  \/ WrongRunCount
  \/ StartLoad
  \/ SheetNotFound
  \/ LoadParsed
  \/ LoadParseError
  \/ FinishLoad
  \/ ParseIncomplete
  \/ WriteSchemaReport
  \/ Normalize
  \/ Align
  \/ Match
  \/ Growth
  \/ WriteOutputs

SpecRun ==
  InitRun /\ [][NextRun]_vars

(***************************************************************************)
(* growth.py: growth_rate, compute_growth_for_matches.  Depths in percent, *)
(* lengths and widths in mm, rates as exact fractions.                     *)
(***************************************************************************)
MAX_DEPTH_RATE_OUTLIER ==
  5

\* variant of growth_rate: a missing operand gives the rate zero
growth_rate_ZeroWhenMissing(v_old, v_new, yrs) ==
  IF isna(v_old) \/ isna(v_new) \/ yrs <= 0 THEN Q(0, 1)
  ELSE Q(v_new - v_old, yrs)

growth_rate(v_old, v_new, yrs) ==
  IF isna(v_old) \/ isna(v_new) \/ yrs <= 0 THEN None
  ELSE Q(v_new - v_old, yrs)

\* "outlier_rate" if r is not None and abs(r) > max_depth_rate else ""
growth_flag(r, max_depth_rate) ==
  IF r # None /\ r # QNaN /\ Abs(r.n) > max_depth_rate * r.d THEN "outlier_rate" ELSE ""

\* one row of a Matches table: the depths, lengths and widths of the pair
GrowthRow(pd, ld, pl, ll, pw, lw) ==
  [prev_depth_percent |-> pd, later_depth_percent |-> ld,
   prev_length_mm |-> pl, later_length_mm |-> ll,
   prev_width_mm |-> pw, later_width_mm |-> lw]

\* the rows of the model's Matches tables
GrowthRows ==
  {GrowthRow(20, 35, 10, 30, 5, 5),
   GrowthRow(35, 20, 30, 10, NaN, 5),
   GrowthRow(NaN, 35, 10, NaN, 5, 12),
   GrowthRow(20, NaN, NaN, NaN, 5, NaN),
   GrowthRow(20, 80, NaN, 30, 12, 5),
   GrowthRow(80, 20, 30, 30, NaN, NaN),
   GrowthRow(20, 20, 10, 10, 5, 5)}

MaxMatches ==
  2

\* the Matches tables; a table has at least one row (on an empty table
\* DataFrame.apply yields a frame instead of a column)
GrowthTables ==
  {t \in SeqsUpTo(GrowthRows, MaxMatches) : Len(t) >= 1}

\* lines 39-43
GrowthYears ==
  /\ gpc = "start"
  /\ years' = growth_later_year - growth_prev_year
  /\ IF growth_later_year - growth_prev_year <= 0
     THEN /\ m_with_growth' = matches_in
          /\ gpc' = "returned"
     ELSE /\ m_with_growth' =
               [k \in 1..Len(matches_in) |->
                  [years |-> growth_later_year - growth_prev_year] @@ matches_in[k]]
          /\ gpc' = "depth"
  /\ UNCHANGED <<matches_in, growth_prev_year, growth_later_year>>
  /\ UNCHANGED notGrowthVars

\* lines 44-47
DepthRate ==
  /\ gpc = "depth"
  /\ m_with_growth' =
       [k \in 1..Len(m_with_growth) |->
          [depth_rate |-> growth_rate(m_with_growth[k].prev_depth_percent,
                                      m_with_growth[k].later_depth_percent, years)]
            @@ m_with_growth[k]]
  /\ gpc' = "length"
  /\ UNCHANGED <<matches_in, growth_prev_year, growth_later_year, years>>
  /\ UNCHANGED notGrowthVars

\* lines 48-51
LengthRate ==
  /\ gpc = "length"
  /\ m_with_growth' =
       [k \in 1..Len(m_with_growth) |->
          [length_rate |-> growth_rate(m_with_growth[k].prev_length_mm,
                                       m_with_growth[k].later_length_mm, years)]
            @@ m_with_growth[k]]
  /\ gpc' = "width"
  /\ UNCHANGED <<matches_in, growth_prev_year, growth_later_year, years>>
  /\ UNCHANGED notGrowthVars

\* lines 52-55
WidthRate ==
  /\ gpc = "width"
  /\ m_with_growth' =
       [k \in 1..Len(m_with_growth) |->
          [width_rate |-> growth_rate(m_with_growth[k].prev_width_mm,
                                      m_with_growth[k].later_width_mm, years)]
            @@ m_with_growth[k]]
  /\ gpc' = "flag"
  /\ UNCHANGED <<matches_in, growth_prev_year, growth_later_year, years>>
  /\ UNCHANGED notGrowthVars

\* lines 56-59
GrowthFlag ==
  /\ gpc = "flag"
  /\ m_with_growth' =
       [k \in 1..Len(m_with_growth) |->
          [growth_flag |-> growth_flag(m_with_growth[k].depth_rate, MAX_DEPTH_RATE_OUTLIER)]
            @@ m_with_growth[k]]
  /\ gpc' = "returned"
  /\ UNCHANGED <<matches_in, growth_prev_year, growth_later_year, years>>
  /\ UNCHANGED notGrowthVars

\* run_mvp line 74: the two years are sorted(run_years) of two parsed runs
InitGrowth ==
  /\ gpc = "start"
  /\ matches_in \in GrowthTables
  /\ growth_prev_year \in YearPool
  /\ growth_later_year \in YearPool
  /\ growth_prev_year < growth_later_year
  /\ years = 0
  /\ m_with_growth = <<>>
  /\ NotGrowthIdle

NextGrowth ==
  \/ GrowthYears
  \/ DepthRate
  \/ LengthRate
  \/ WidthRate
  \/ GrowthFlag

SpecGrowth ==
  InitGrowth /\ [][NextGrowth]_vars

(***************************************************************************)
(* project.py: the saturation model.  Depths in 1/1000 percent; k, log and *)
(* exp in 1/10000, computed by series to that precision.                   *)
(***************************************************************************)
DEPTH_SCALE ==
  1000

K_SCALE ==
  10000

\* math.log(2), in 1/K_SCALE
LN2 ==
  6931

\* the decimal places projected_depth is rounded to
ROUND_STEP ==
  10

\* 100.0, 99.999 and 0.001 percent
FULL_DEPTH ==
  100 * DEPTH_SCALE

MAX_FIT_DEPTH ==
  FULL_DEPTH - 1

MIN_REMAINING ==
  1

\* a fit or a rate that is None
NoValue ==
  -2000000

Max(a, b) ==
  IF a >= b THEN a ELSE b

\* math.log(num / den) for num >= den > 0, in 1/K_SCALE: halve down to
\* [1, 2), then 2 atanh((y - 1) / (y + 1)) by its series
RECURSIVE Log(_, _)
Log(num, den) ==
  IF num >= 2 * den THEN LN2 + Log(num, 2 * den)
  ELSE LET z == ((num - den) * K_SCALE) \div (num + den)
           z2 == (z * z) \div K_SCALE
           z3 == (z * z2) \div K_SCALE
           z5 == (z3 * z2) \div K_SCALE
           z7 == (z5 * z2) \div K_SCALE
       IN  2 * (z + z3 \div 3 + z5 \div 5 + z7 \div 7)

\* math.exp(-x) for x >= 0, both in 1/K_SCALE: square exp(-x/2) down to
\* x <= 1/8, then the series
RECURSIVE ExpNeg(_)
ExpNeg(x) ==
  IF x > K_SCALE \div 8
  THEN LET h == ExpNeg(x \div 2) IN (h * h) \div K_SCALE
  ELSE K_SCALE - x + (x * x) \div (2 * K_SCALE) - (x * x * x) \div (6 * K_SCALE * K_SCALE)

\* round(x, 2): the multiples of 0.01 nearest to x; at a tie the binary
\* value of the float decides, so both neighbours are possible
round2(x) ==
  LET down == x - (x % ROUND_STEP)
      m == x % ROUND_STEP
  IN  IF m = 0 THEN {x}
      ELSE IF 2 * m < ROUND_STEP THEN {down}
      ELSE IF 2 * m > ROUND_STEP THEN {down + ROUND_STEP}
      ELSE {down, down + ROUND_STEP}

\* lines 26-39; the depth_rate column of the table holds the same quotient
_growth_rate_per_year(row) ==
  IF isna(row.prev_depth_percent) \/ isna(row.later_depth_percent) THEN NoValue
  ELSE IF row.later_year - row.prev_year <= 0 THEN NoValue
  ELSE (row.later_depth_percent - row.prev_depth_percent) \div (row.later_year - row.prev_year)

\* lines 42-71
_logistic_k_from_row(row) ==
  IF isna(row.prev_depth_percent) \/ isna(row.later_depth_percent) THEN NoValue
  ELSE IF row.later_year - row.prev_year <= 0 THEN NoValue
  ELSE LET d0 == Max(0, Min(MAX_FIT_DEPTH, row.prev_depth_percent))
           d1 == Max(0, Min(MAX_FIT_DEPTH, row.later_depth_percent))
       IN  IF d1 <= d0 THEN 0
           ELSE Log(FULL_DEPTH - d0, FULL_DEPTH - d1) \div (row.later_year - row.prev_year)

\* Series.dropna() on the values of f over the rows
RECURSIVE DropNa(_, _)
DropNa(vals, k) ==
  IF k > Len(vals) THEN <<>>
  ELSE IF vals[k] = NoValue THEN DropNa(vals, k + 1)
  ELSE <<vals[k]>> \o DropNa(vals, k + 1)

\* insert v into the sorted sequence s
RECURSIVE Insert(_, _)
Insert(v, s) ==
  IF s = <<>> THEN <<v>>
  ELSE IF v <= s[1] THEN <<v>> \o s
  ELSE <<s[1]>> \o Insert(v, Tail(s))

RECURSIVE Sorted(_)
Sorted(s) ==
  IF s = <<>> THEN <<>> ELSE Insert(s[1], Sorted(Tail(s)))

\* Series.quantile(q / 100), linear interpolation, on a series with values
quantile(vals, q) ==
  LET v == Sorted(vals)
      pos == q * (Len(v) - 1)
      lo == pos \div 100 + 1
      fr == pos % 100
  IN  IF fr = 0 THEN v[lo]
      ELSE v[lo] + ((v[lo + 1] - v[lo]) * fr) \div 100

\* variant of _bounded_logistic_k: only a k cut down to the upper limit counts
\* as capped
_bounded_logistic_k_CappedAboveOnly(k, kv) ==
  IF k = NoValue THEN [k |-> NoValue, capped |-> FALSE]
  ELSE IF Len(kv) = 0 THEN [k |-> Max(0, k), capped |-> FALSE]
  ELSE LET lo == quantile(kv, 5)
           hi == quantile(kv, 95)
           bounded == Max(0, Max(lo, Min(hi, k)))
       IN  [k |-> bounded, capped |-> k > hi]

\* lines 74-93: (bounded_k, was_capped)
_bounded_logistic_k(k, kv) ==
  IF k = NoValue THEN [k |-> NoValue, capped |-> FALSE]
  ELSE IF Len(kv) = 0 THEN [k |-> Max(0, k), capped |-> Max(0, k) # k]
  ELSE LET lo == quantile(kv, 5)
           hi == quantile(kv, 95)
           bounded == Max(0, Max(lo, Min(hi, k)))
       IN  [k |-> bounded, capped |-> bounded # k]

\* variant of _project_depth_realistic: the fitted curve is used at any horizon
_project_depth_realistic_AnyHorizon(depth_current, bounded_k, years_ahead) ==
  IF bounded_k = NoValue THEN depth_current
  ELSE LET rem == Max(MIN_REMAINING, FULL_DEPTH - depth_current)
           projected == FULL_DEPTH - (rem * ExpNeg(bounded_k * Abs(years_ahead))) \div K_SCALE
       IN  Max(0, Min(FULL_DEPTH, projected))

\* lines 96-110
_project_depth_realistic(depth_current, bounded_k, years_ahead) ==
  IF years_ahead <= 0 \/ bounded_k = NoValue THEN depth_current
  ELSE LET rem == Max(MIN_REMAINING, FULL_DEPTH - depth_current)
           projected == FULL_DEPTH - (rem * ExpNeg(bounded_k * years_ahead)) \div K_SCALE
       IN  Max(0, Min(FULL_DEPTH, projected))

(***************************************************************************)
(* project.py: compute_projections, step by step                           *)
(***************************************************************************)
MaxProjRows ==
  2

MaxTargets ==
  2

\* the (earlier, later) depths of the model's Matches, in 1/1000 percent:
\* growth, no growth, shrinking, a missing depth on either side, depths
\* outside 0..100 percent as the sheet gave them, and a depth with three
\* decimals
ProjDepths ==
  {<<20000, 50000>>, <<40000, 40000>>, <<50000, 30000>>, <<NaN, 35000>>,
   <<20000, NaN>>, <<35000, 120000>>, <<5000, -2000>>, <<12000, 12345>>}

\* the two run years of a Matches table
ProjRunYears ==
  {<<2007, 2015>>, <<2015, 2022>>}

TargetPool ==
  {2015, 2022, 2030}

\* the Matches tables: every row carries the run years of the table
ProjTables ==
  {[k \in 1..Len(ds) |->
      [later_idx |-> k, prev_year |-> ys[1], later_year |-> ys[2],
       prev_depth_percent |-> ds[k][1], later_depth_percent |-> ds[k][2]]] :
     ds \in {t \in SeqsUpTo(ProjDepths, MaxProjRows) : Len(t) >= 1}, ys \in ProjRunYears}

\* f applied to every row
RowValues(f(_), df) ==
  [k \in 1..Len(df) |-> f(df[k])]

\* variant of ProjectedRow: the remaining wall of the modeled rate is not
\* floored at zero
ProjectedRow_RemainingUnfloored(row, target_year, kv, rv, p) ==
  LET gr == _growth_rate_per_year(row)
      k == _logistic_k_from_row(row)
      depth_curr_f == row.later_depth_percent
      years_ahead == target_year - row.later_year
      b == _bounded_logistic_k(k, kv)
      projected == _project_depth_realistic(depth_curr_f, b.k, years_ahead)
      modeled_rate == IF b.k = NoValue THEN NoValue
                      ELSE (b.k * (FULL_DEPTH - depth_curr_f)) \div K_SCALE
      flags1 == IF modeled_rate # NoValue /\ modeled_rate < 0
                THEN <<"negative_growth">> ELSE <<>>
      flags2 == IF modeled_rate # NoValue /\ Len(rv) > 0 /\ modeled_rate > p
                THEN <<"high_growth">> ELSE <<>>
      flags3 == IF modeled_rate # NoValue /\ b.capped
                THEN <<"model_capped">> ELSE <<>>
  IN  [anomaly_id_curr |-> row.later_idx,
       depth_prev |-> row.prev_depth_percent,
       depth_curr |-> depth_curr_f,
       growth_rate_per_year |-> modeled_rate,
       projected_depth |-> projected,
       confidence_flag |-> flags1 \o flags2 \o flags3,
       notes |-> IF gr = NoValue THEN "missing_growth_rate" ELSE ""]

\* the row of one Match for one target year, before rounding (lines 138-164)
ProjectedRow(row, target_year, kv, rv, p) ==
  LET gr == _growth_rate_per_year(row)
      k == _logistic_k_from_row(row)
      depth_curr_f == row.later_depth_percent
      years_ahead == target_year - row.later_year
      b == _bounded_logistic_k(k, kv)
      projected == _project_depth_realistic(depth_curr_f, b.k, years_ahead)
      modeled_rate == IF b.k = NoValue THEN NoValue
                      ELSE (b.k * Max(0, FULL_DEPTH - depth_curr_f)) \div K_SCALE
      flags1 == IF modeled_rate # NoValue /\ modeled_rate < 0
                THEN <<"negative_growth">> ELSE <<>>
      flags2 == IF modeled_rate # NoValue /\ Len(rv) > 0 /\ modeled_rate > p
                THEN <<"high_growth">> ELSE <<>>
      flags3 == IF modeled_rate # NoValue /\ b.capped
                THEN <<"model_capped">> ELSE <<>>
  IN  [anomaly_id_curr |-> row.later_idx,
       depth_prev |-> row.prev_depth_percent,
       depth_curr |-> depth_curr_f,
       growth_rate_per_year |-> modeled_rate,
       projected_depth |-> projected,
       confidence_flag |-> flags1 \o flags2 \o flags3,
       notes |-> IF gr = NoValue THEN "missing_growth_rate" ELSE ""]

\* lines 125-132
ProjectFit ==
  /\ ppc = "start"
  /\ IF Len(matches_df) = 0
     THEN /\ result' = [ty \in {target_years[k] : k \in 1..Len(target_years)} |-> <<>>]
          /\ ppc' = "returned"
          /\ UNCHANGED <<k_valid, rates_valid, p90>>
     ELSE /\ rates_valid' = DropNa(RowValues(_growth_rate_per_year, matches_df), 1)
          /\ k_valid' = DropNa(RowValues(_logistic_k_from_row, matches_df), 1)
          /\ p90' = LET rv == DropNa(RowValues(_growth_rate_per_year, matches_df), 1)
                    IN  IF Len(rv) > 0 THEN quantile(rv, 90) ELSE 0
          /\ ppc' = "rows"
          /\ UNCHANGED result
  /\ UNCHANGED <<matches_df, target_years, ty_i, row_i, proj_rows>>
  /\ UNCHANGED notProjectVars

\* lines 137-143: a row without later depth is left out
SkipRow ==
  /\ ppc = "rows"
  /\ ty_i <= Len(target_years)
  /\ row_i <= Len(matches_df)
  /\ isna(matches_df[row_i].later_depth_percent)
  /\ row_i' = row_i + 1
  /\ UNCHANGED <<ppc, matches_df, target_years, k_valid, rates_valid, p90, ty_i,
                 proj_rows, result>>
  /\ UNCHANGED notProjectVars

\* lines 137-176
ProjectRow ==
  /\ ppc = "rows"
  /\ ty_i <= Len(target_years)
  /\ row_i <= Len(matches_df)
  /\ notna(matches_df[row_i].later_depth_percent)
  /\ LET r == ProjectedRow(matches_df[row_i], target_years[ty_i], k_valid, rates_valid, p90)
     IN  \E rounded \in round2(r.projected_depth) :
           proj_rows' = Append(proj_rows, [r EXCEPT !.projected_depth = rounded])
  /\ row_i' = row_i + 1
  /\ UNCHANGED <<ppc, matches_df, target_years, k_valid, rates_valid, p90, ty_i, result>>
  /\ UNCHANGED notProjectVars

\* line 177, and the next turn of the loop of line 135
StoreTarget ==
  /\ ppc = "rows"
  /\ ty_i <= Len(target_years)
  /\ row_i > Len(matches_df)
  /\ result' = (target_years[ty_i] :> proj_rows) @@ result
  /\ ty_i' = ty_i + 1
  /\ row_i' = 1
  /\ proj_rows' = <<>>
  /\ UNCHANGED <<ppc, matches_df, target_years, k_valid, rates_valid, p90>>
  /\ UNCHANGED notProjectVars

\* line 178
ProjectReturn ==
  /\ ppc = "rows"
  /\ ty_i > Len(target_years)
  /\ ppc' = "returned"
  /\ UNCHANGED <<matches_df, target_years, k_valid, rates_valid, p90, ty_i, row_i,
                 proj_rows, result>>
  /\ UNCHANGED notProjectVars

\* app.py lines 490-508: a non-empty list of target years and a Matches
\* table with rows
InitProject ==
  /\ ppc = "start"
  /\ matches_df \in ProjTables
  /\ target_years \in {t \in SeqsUpTo(TargetPool, MaxTargets) : Len(t) >= 1}
  /\ k_valid = <<>>
  /\ rates_valid = <<>>
  /\ p90 = 0
  /\ ty_i = 1
  /\ row_i = 1
  /\ proj_rows = <<>>
  /\ result = <<>>
  /\ NotProjectIdle

NextProject ==
  \/ ProjectFit
  \/ SkipRow
  \/ ProjectRow
  \/ StoreTarget
  \/ ProjectReturn

SpecProject ==
  InitProject /\ [][NextProject]_vars

(***************************************************************************)
(* normalize.py: _clock_to_degrees and the clock step of normalize_run.    *)
(* Clock positions in half degrees.  A clock cell is [kind |-> "na"] for   *)
(* None or NaN, [kind |-> "num", f |-> number] for an int or float, and    *)
(* [kind |-> "text", s |-> text] for anything else, by its str().          *)
(***************************************************************************)
\* float("inf") among the numbers of the model
Infinity ==
  1000000000

\* the texts of the clock cells of the model, as character sequences
ClockChars ==
  ("09:00" :> <<"0","9",":","0","0">>) @@
  ("12:00" :> <<"1","2",":","0","0">>) @@
  (" 3:30 " :> <<" ","3",":","3","0"," ">>) @@
  ("06:15:30" :> <<"0","6",":","1","5",":","3","0">>) @@
  ("13:75" :> <<"1","3",":","7","5">>) @@
  ("-3:00" :> <<"-","3",":","0","0">>) @@
  ("90" :> <<"9","0">>) @@
  ("" :> <<>>) @@
  ("  " :> <<" "," ">>) @@
  ("\n" :> <<"\n">>) @@
  (":" :> <<":">>) @@
  (" : . " :> <<" ",":"," ","."," ">>) @@
  ("abc" :> <<"a","b","c">>) @@
  ("12:xx" :> <<"1","2",":","x","x">>) @@
  ("nan" :> <<"n","a","n">>) @@
  ("inf" :> <<"i","n","f">>) @@
  ("-Infinity" :> <<"-","I","n","f","i","n","i","t","y">>)

DigitValue ==
  ("0" :> 0) @@ ("1" :> 1) @@ ("2" :> 2) @@ ("3" :> 3) @@ ("4" :> 4) @@
  ("5" :> 5) @@ ("6" :> 6) @@ ("7" :> 7) @@ ("8" :> 8) @@ ("9" :> 9)

\* the characters str.strip() and str.split() take as blank
IsSpace(c) ==
  c \in {" ", "\n", "\r", "\t"}

RECURSIVE StripSpaceLeft(_)
StripSpaceLeft(s) ==
  IF s # <<>> /\ IsSpace(Head(s)) THEN StripSpaceLeft(Tail(s)) ELSE s

RECURSIVE StripSpaceRight(_)
StripSpaceRight(s) ==
  IF s # <<>> /\ IsSpace(s[Len(s)]) THEN StripSpaceRight(SubSeq(s, 1, Len(s) - 1)) ELSE s

\* s.replace(old, " ") for a single character old
ReplaceBySpace(s, old) ==
  [k \in 1..Len(s) |-> IF s[k] = old THEN " " ELSE s[k]]

RECURSIVE WordLen(_)
\* the length of the word s starts with
WordLen(s) ==
  IF s = <<>> \/ IsSpace(Head(s)) THEN 0 ELSE 1 + WordLen(Tail(s))

RECURSIVE Split(_)
\* str.split()
Split(s) ==
  IF s = <<>> THEN <<>>
  ELSE IF IsSpace(Head(s)) THEN Split(Tail(s))
  ELSE <<SubSeq(s, 1, WordLen(s))>> \o Split(SubSeq(s, WordLen(s) + 1, Len(s)))

RECURSIVE DecimalValue(_, _)
\* the number written by the digits of w, after the value acc of those read
DecimalValue(w, acc) ==
  IF w = <<>> THEN acc ELSE DecimalValue(Tail(w), 10 * acc + DigitValue[Head(w)])

\* int(float(w)) on a word after its sign: the words of the model are digit
\* strings, inf, infinity, nan and text float() rejects
IntOfUnsigned(w, sign) ==
  IF w # <<>> /\ \A k \in 1..Len(w) : w[k] \in DOMAIN DigitValue
  THEN [val |-> sign * DecimalValue(w, 0), exc |-> ""]
  ELSE IF Lower(w) \in {<<"i","n","f">>, <<"i","n","f","i","n","i","t","y">>}
  THEN [val |-> 0, exc |-> "OverflowError"]
  ELSE [val |-> 0, exc |-> "ValueError"]

\* int(float(w)) for a word w of the split: the value, or the exception raised
IntOfFloat(w) ==
  IF w # <<>> /\ Head(w) = "-" THEN IntOfUnsigned(Tail(w), -1)
  ELSE IF w # <<>> /\ Head(w) = "+" THEN IntOfUnsigned(Tail(w), 1)
  ELSE IntOfUnsigned(w, 1)

\* lines 56-61 on the parts of the split
ClockOfParts(h, m) ==
  IF h.exc = "ValueError" \/ (h.exc = "" /\ m.exc = "ValueError")
  THEN [ret |-> NoValue, exc |-> ""]
  ELSE IF h.exc # "" THEN [ret |-> NoValue, exc |-> h.exc]
  ELSE IF m.exc # "" THEN [ret |-> NoValue, exc |-> m.exc]
  ELSE [ret |-> ((h.val % 12) * 60 + m.val) % FULL_TURN, exc |-> ""]

\* lines 54-57
ClockOfWords(parts) ==
  ClockOfParts(IF Len(parts) > 0 THEN IntOfFloat(parts[1]) ELSE [val |-> 0, exc |-> ""],
               IF Len(parts) > 1 THEN IntOfFloat(parts[2]) ELSE [val |-> 0, exc |-> ""])

\* lines 51-54 on the stripped text
ClockOfText(s) ==
  IF s = <<>> THEN [ret |-> NoValue, exc |-> ""]
  ELSE ClockOfWords(Split(ReplaceBySpace(ReplaceBySpace(s, ":"), ".")))

\* variant of _clock_to_degrees: a number is always reduced mod 360
_clock_to_degrees_AlwaysMod(v) ==
  IF v.kind = "na" THEN [ret |-> NoValue, exc |-> ""]
  ELSE IF v.kind = "num"
  THEN IF v.f \in {Infinity, -Infinity} THEN [ret |-> NaN, exc |-> ""]
       ELSE [ret |-> v.f % FULL_TURN, exc |-> ""]
  ELSE ClockOfText(ReplaceBySpace(ReplaceBySpace(
         StripSpaceRight(StripSpaceLeft(ClockChars[v.s])), "\n"), "\r"))

\* lines 40-61: ret is the value returned (NoValue for None, NaN for
\* inf % 360), exc the exception that leaves the function
_clock_to_degrees(v) ==
  IF v.kind = "na" THEN [ret |-> NoValue, exc |-> ""]
  ELSE IF v.kind = "num"
  THEN IF v.f \in {Infinity, -Infinity} THEN [ret |-> NaN, exc |-> ""]
       ELSE IF 0 <= v.f /\ v.f <= FULL_TURN THEN [ret |-> v.f, exc |-> ""]
       ELSE [ret |-> v.f % FULL_TURN, exc |-> ""]
  ELSE ClockOfText(ReplaceBySpace(ReplaceBySpace(
         StripSpaceRight(StripSpaceLeft(ClockChars[v.s])), "\n"), "\r"))

MaxClockRows ==
  2

\* numbers of a clock column: 0, 90, 360, 361, 720 and -90 degrees, +-inf
ClockNumbers ==
  {0, 180, 720, 722, 1440, -180, Infinity, -Infinity}

\* the cells a clock column of the model can hold
ClockCells ==
  {[kind |-> "na"]}
    \cup {[kind |-> "num", f |-> x] : x \in ClockNumbers}
    \cup {[kind |-> "text", s |-> x] : x \in DOMAIN ClockChars}

\* lines 118-119: the run has no clock column
ClockColumnMissing ==
  /\ cpc = "clock"
  /\ clock_col = <<>>
  /\ clock_out' = [k \in 1..n_rows |-> NaN]
  /\ cpc' = "returned"
  /\ UNCHANGED <<n_rows, clock_col, clock_i, clock_exc>>
  /\ UNCHANGED notClockVars

\* line 116: apply calls _clock_to_degrees on the next cell
ClockApply ==
  /\ cpc = "clock"
  /\ clock_col # <<>>
  /\ clock_i <= n_rows
  /\ _clock_to_degrees(clock_col[1][clock_i]).exc = ""
  /\ clock_out' = Append(clock_out, _clock_to_degrees(clock_col[1][clock_i]).ret)
  /\ clock_i' = clock_i + 1
  /\ UNCHANGED <<cpc, n_rows, clock_col, clock_exc>>
  /\ UNCHANGED notClockVars

\* line 116: the call raises an exception the function does not catch; it
\* leaves apply and normalize_run
ClockRaise ==
  /\ cpc = "clock"
  /\ clock_col # <<>>
  /\ clock_i <= n_rows
  /\ _clock_to_degrees(clock_col[1][clock_i]).exc # ""
  /\ clock_exc' = _clock_to_degrees(clock_col[1][clock_i]).exc
  /\ clock_out' = <<>>
  /\ cpc' = "raised"
  /\ UNCHANGED <<n_rows, clock_col, clock_i>>
  /\ UNCHANGED notClockVars

\* lines 116-117: the column is complete
ClockReturn ==
  /\ cpc = "clock"
  /\ clock_col # <<>>
  /\ clock_i > n_rows
  /\ cpc' = "returned"
  /\ UNCHANGED <<n_rows, clock_col, clock_i, clock_out, clock_exc>>
  /\ UNCHANGED notClockVars

InitClock ==
  /\ cpc = "clock"
  /\ n_rows \in 0..MaxClockRows
  /\ clock_col \in {<<>>} \cup {<<c>> : c \in [1..n_rows -> ClockCells]}
  /\ clock_i = 1
  /\ clock_out = <<>>
  /\ clock_exc = ""
  /\ NotClockIdle

NextClock ==
  \/ ClockColumnMissing
  \/ ClockApply
  \/ ClockRaise
  \/ ClockReturn

SpecClock ==
  InitClock /\ [][NextClock]_vars

(***************************************************************************)
(* IEEE-754 binary64 arithmetic, as Python's float computes.  A natural    *)
(* number is a sequence of limbs in base 2^14, least significant first,    *)
(* without leading zero limbs; a finite float is [neg, m, e] and stands    *)
(* for +-m * 2^e with m below 2^53 (or the power of two 2^53).  Overflow,  *)
(* underflow and subnormal results are outside the values of the model.    *)
(***************************************************************************)
LIMB_BITS ==
  14

LIMB ==
  2 ^ LIMB_BITS

MANTISSA_BITS ==
  53

RECURSIVE NatTrim(_)
NatTrim(a) ==
  IF a # <<>> /\ a[Len(a)] = 0 THEN NatTrim(SubSeq(a, 1, Len(a) - 1)) ELSE a

RECURSIVE NatOf(_)
\* the limbs of a small natural number
NatOf(n) ==
  IF n = 0 THEN <<>> ELSE <<n % LIMB>> \o NatOf(n \div LIMB)

LimbAt(a, k) ==
  IF k <= Len(a) THEN a[k] ELSE 0

RECURSIVE NatAddFrom(_, _, _, _)
NatAddFrom(a, b, k, carry) ==
  IF k > Len(a) /\ k > Len(b) THEN NatOf(carry)
  ELSE <<(LimbAt(a, k) + LimbAt(b, k) + carry) % LIMB>>
         \o NatAddFrom(a, b, k + 1, (LimbAt(a, k) + LimbAt(b, k) + carry) \div LIMB)

NatAdd(a, b) ==
  NatAddFrom(a, b, 1, 0)

RECURSIVE NatSubFrom(_, _, _, _)
NatSubFrom(a, b, k, borrow) ==
  IF k > Len(a) THEN <<>>
  ELSE <<(LimbAt(a, k) - LimbAt(b, k) - borrow + LIMB) % LIMB>>
         \o NatSubFrom(a, b, k + 1, IF LimbAt(a, k) - LimbAt(b, k) - borrow < 0 THEN 1 ELSE 0)

\* a - b for a >= b
NatSub(a, b) ==
  NatTrim(NatSubFrom(a, b, 1, 0))

RECURSIVE NatCmpFrom(_, _, _)
NatCmpFrom(a, b, k) ==
  IF k = 0 THEN 0
  ELSE IF a[k] < b[k] THEN -1
  ELSE IF a[k] > b[k] THEN 1
  ELSE NatCmpFrom(a, b, k - 1)

\* -1, 0, 1 as a < b, a = b, a > b
NatCmp(a, b) ==
  IF Len(a) < Len(b) THEN -1
  ELSE IF Len(a) > Len(b) THEN 1
  ELSE NatCmpFrom(a, b, Len(a))

RECURSIVE NatMulLimbFrom(_, _, _, _)
NatMulLimbFrom(a, x, k, carry) ==
  IF k > Len(a) THEN NatOf(carry)
  ELSE <<(a[k] * x + carry) % LIMB>>
         \o NatMulLimbFrom(a, x, k + 1, (a[k] * x + carry) \div LIMB)

\* a * x for one limb x
NatMulLimb(a, x) ==
  NatTrim(NatMulLimbFrom(a, x, 1, 0))

\* a * LIMB^n
ShiftLimbs(a, n) ==
  IF a = <<>> THEN <<>> ELSE [k \in 1..n |-> 0] \o a

RECURSIVE NatMul(_, _)
NatMul(a, b) ==
  IF b = <<>> THEN <<>>
  ELSE NatAdd(NatMulLimb(a, Head(b)), ShiftLimbs(NatMul(a, Tail(b)), 1))

\* a * 2^n
NatShl(a, n) ==
  ShiftLimbs(NatMulLimb(a, 2 ^ (n % LIMB_BITS)), n \div LIMB_BITS)

RECURSIVE NatDivLimbFrom(_, _, _, _)
NatDivLimbFrom(a, x, k, rem) ==
  IF k = 0 THEN <<>>
  ELSE NatDivLimbFrom(a, x, k - 1, (rem * LIMB + a[k]) % x) \o <<(rem * LIMB + a[k]) \div x>>

\* a \div 2^n
NatShr(a, n) ==
  IF n \div LIMB_BITS >= Len(a) THEN <<>>
  ELSE NatTrim(NatDivLimbFrom(SubSeq(a, n \div LIMB_BITS + 1, Len(a)), 2 ^ (n % LIMB_BITS),
                              Len(a) - n \div LIMB_BITS, 0))

\* the number of bits of a
NatBits(a) ==
  IF a = <<>> THEN 0
  ELSE LIMB_BITS * (Len(a) - 1)
         + (CHOOSE n \in 1..LIMB_BITS : 2 ^ (n - 1) <= a[Len(a)] /\ a[Len(a)] < 2 ^ n)

RECURSIVE DigitOf(_, _, _, _)
\* the largest limb x with d * x <= r, found bit by bit from acc
DigitOf(r, d, bit, acc) ==
  IF bit < 0 THEN acc
  ELSE IF NatCmp(NatMulLimb(d, acc + 2 ^ bit), r) <= 0
  THEN DigitOf(r, d, bit - 1, acc + 2 ^ bit)
  ELSE DigitOf(r, d, bit - 1, acc)

NatDivPut(res, digit) ==
  [q |-> res.q \o <<digit>>, r |-> res.r]

RECURSIVE NatDivLimbs(_, _, _, _)
RECURSIVE NatDivTake(_, _, _, _, _)
\* long division of n by d, limbs k..1 of n still to come, r the remainder
\* so far
NatDivLimbs(n, d, k, r) ==
  IF k = 0 THEN [q |-> <<>>, r |-> r]
  ELSE NatDivTake(n, d, k, NatTrim(<<n[k]>> \o r),
                  DigitOf(NatTrim(<<n[k]>> \o r), d, LIMB_BITS - 1, 0))

NatDivTake(n, d, k, r, digit) ==
  NatDivPut(NatDivLimbs(n, d, k - 1, NatSub(r, NatMulLimb(d, digit))), digit)

NatDivTrim(res) ==
  [q |-> NatTrim(res.q), r |-> res.r]

\* quotient and remainder of n by d, d not zero
NatDivMod(n, d) ==
  NatDivTrim(NatDivLimbs(n, d, Len(n), <<>>))

\* +-m * 2^e
Fl(neg, m, e) ==
  [neg |-> neg, m |-> m, e |-> e]

\* the float of a small integer n times 2^e
FlOf(n, e) ==
  IF n < 0 THEN Fl(TRUE, NatOf(-n), e) ELSE Fl(FALSE, NatOf(n), e)

\* round to nearest, ties to even: q is m without its sh lowest bits, rem
\* those bits
FlRoundUp(neg, q, rem, half, e) ==
  IF NatCmp(rem, half) > 0 \/ (NatCmp(rem, half) = 0 /\ q[1] % 2 = 1)
  THEN Fl(neg, NatAdd(q, <<1>>), e)
  ELSE Fl(neg, q, e)

FlRoundShift(neg, m, e, sh, q) ==
  FlRoundUp(neg, q, NatSub(m, NatShl(q, sh)), NatShl(<<1>>, sh - 1), e + sh)

\* the float nearest to +-m * 2^e
FlRound(neg, m, e) ==
  IF NatBits(m) <= MANTISSA_BITS THEN Fl(neg, m, e)
  ELSE FlRoundShift(neg, m, e, NatBits(m) - MANTISSA_BITS,
                    NatShr(m, NatBits(m) - MANTISSA_BITS))

\* +-(ma +- mb) * 2^e for mantissas brought to one exponent
ExactSumAligned(a_neg, ma, b_neg, mb, e) ==
  IF a_neg = b_neg THEN Fl(a_neg, NatAdd(ma, mb), e)
  ELSE IF NatCmp(ma, mb) >= 0 THEN Fl(a_neg, NatSub(ma, mb), e)
  ELSE Fl(b_neg, NatSub(mb, ma), e)

\* a + b without rounding
ExactSum(a, b) ==
  IF a.m = <<>> THEN b
  ELSE IF b.m = <<>> THEN a
  ELSE IF a.e <= b.e THEN ExactSumAligned(a.neg, a.m, b.neg, NatShl(b.m, b.e - a.e), a.e)
  ELSE ExactSumAligned(a.neg, NatShl(a.m, a.e - b.e), b.neg, b.m, b.e)

FlRoundOf(x) ==
  FlRound(x.neg, x.m, x.e)

FlNeg(a) ==
  Fl(~a.neg, a.m, a.e)

FlAbs(a) ==
  Fl(FALSE, a.m, a.e)

\* a + b
FlAdd(a, b) ==
  FlRoundOf(ExactSum(a, b))

\* a - b
FlSub(a, b) ==
  FlRoundOf(ExactSum(a, FlNeg(b)))

\* a * b
FlMul(a, b) ==
  FlRound(a.neg # b.neg, NatMul(a.m, b.m), a.e + b.e)

\* the quotient with a bit for a remainder below its last bit
FlDivSticky(neg, dm, e) ==
  FlRound(neg, NatAdd(NatAdd(dm.q, dm.q), IF dm.r = <<>> THEN <<>> ELSE <<1>>), e - 1)

FlDivShifted(a, b, k) ==
  FlDivSticky(a.neg # b.neg, NatDivMod(NatShl(a.m, k), b.m), a.e - b.e - k)

\* a / b, b not zero
FlDiv(a, b) ==
  IF a.m = <<>> THEN Fl(a.neg # b.neg, <<>>, 0)
  ELSE FlDivShifted(a, b, MANTISSA_BITS + 3 + NatBits(b.m) - NatBits(a.m))

FlSignOf(x) ==
  IF x.m = <<>> THEN 0 ELSE IF x.neg THEN -1 ELSE 1

\* a < b
FlLt(a, b) ==
  FlSignOf(ExactSum(a, FlNeg(b))) < 0

\* a <= b
FlLe(a, b) ==
  FlSignOf(ExactSum(a, FlNeg(b))) <= 0

\* a = b
FlEq(a, b) ==
  FlSignOf(ExactSum(a, FlNeg(b))) = 0

(***************************************************************************)
(* align.py: _segment_transform and align_run_to_reference computed in     *)
(* binary64, the arithmetic of the floats they are run on.  A cell is      *)
(* [nan |-> TRUE] with any v for NaN and [nan |-> FALSE, v |-> float]      *)
(* for a number.                                                           *)
(***************************************************************************)
\* SEGMENT_LENGTH_MIN_M = 0.01 as a float
SEGMENT_LENGTH_MIN_M64 ==
  Fl(FALSE, <<5243, 7864, 11796, 1310>>, -59)

\* 1e-9 as a float
MONOTONIC_TOL64 ==
  Fl(FALSE, <<5781, 8347, 8382, 1099>>, -82)

Known(x) ==
  [nan |-> FALSE, v |-> x]

NaN64 ==
  [nan |-> TRUE, v |-> FlOf(0, 0)]

\* lines 154-155: scale * d_raw + offset with offset = d_prev_lo - scale * d_later_lo
ScaleAndOffset64(scale, d_later_lo, d_prev_lo, d_raw) ==
  FlAdd(FlMul(scale, d_raw), FlSub(d_prev_lo, FlMul(scale, d_later_lo)))

\* _segment_transform, lines 149-156, on floats: the corrected distance
_segment_transform64(d_later_lo, d_later_hi, d_prev_lo, d_prev_hi, d_raw) ==
  IF FlLt(FlAbs(FlSub(d_later_hi, d_later_lo)), SEGMENT_LENGTH_MIN_M64) THEN d_raw
  ELSE ScaleAndOffset64(FlDiv(FlSub(d_prev_hi, d_prev_lo), FlSub(d_later_hi, d_later_lo)),
                        d_later_lo, d_prev_lo, d_raw)

RECURSIVE FindSegment64(_, _, _, _)
\* lines 184-194 on floats (segments are 1-based here)
FindSegment64(d, d_later, n, k) ==
  IF k > n - 1 THEN 1
  ELSE IF FlLe(d_later[k], d) /\ FlLe(d, d_later[k + 1]) THEN k
  ELSE IF FlLt(d, d_later[1]) THEN 1
  ELSE IF FlLt(d_later[n], d) THEN n - 1
  ELSE FindSegment64(d, d_later, n, k + 1)

\* lines 195-199 for the segment found
TransformIn64(s, d) ==
  _segment_transform64(fl_later[s], fl_later[s + 1], fl_prev[s], fl_prev[s + 1], d)

\* line 201: c < prev_c - 1e-9, prev_c neither None nor NaN
Violation64(c) ==
  /\ fl_prev_c # <<>>
  /\ ~fl_prev_c[1].nan
  /\ FlLt(c, FlSub(fl_prev_c[1].v, MONOTONIC_TOL64))

MaxFloatRows ==
  2

\* previous and later welds: a short later segment against a long previous
\* one; the same welds shifted by 10 m; a later run with one weld
FloatWeldPairs ==
  { << <<FlOf(20000, 0), FlOf(21766, 0), FlOf(21778, 0)>>,
       <<FlOf(114000, 0), FlOf(114003, 0), FlOf(114006, 0)>> >>,
    << <<FlOf(113990, 0), FlOf(113993, 0), FlOf(113996, 0)>>,
       <<FlOf(114000, 0), FlOf(114003, 0), FlOf(114006, 0)>> >>,
    << <<FlOf(20000, 0), FlOf(21766, 0), FlOf(21778, 0)>>,
       <<FlOf(114000, 0)>> >> }

\* raw distances: before the first weld, at the second weld and 2^-30 m to
\* either side of it, inside the second segment, unknown
FloatCells ==
  { Known(FlOf(113999, 0)),
    Known(FlSub(FlOf(114003, 0), FlOf(1, -30))),
    Known(FlOf(114003, 0)),
    Known(FlAdd(FlOf(114003, 0), FlOf(1, -30))),
    Known(FlOf(114005, 0)),
    NaN64 }

\* lines 172-176: fewer than two shared welds, the raw distances are kept
AlignFewWelds64 ==
  /\ fpc = "start"
  /\ Min(Len(fl_prev), Len(fl_later)) < 2
  /\ fl_corrected' = fl_raw
  /\ fpc' = "done"
  /\ UNCHANGED <<fl_prev, fl_later, fl_raw, fl_idx, fl_prev_c, fl_flags>>
  /\ UNCHANGED notFloatVars

\* lines 177-179
AlignStart64 ==
  /\ fpc = "start"
  /\ Min(Len(fl_prev), Len(fl_later)) >= 2
  /\ fpc' = "loop"
  /\ UNCHANGED <<fl_prev, fl_later, fl_raw, fl_idx, fl_prev_c, fl_corrected, fl_flags>>
  /\ UNCHANGED notFloatVars

\* lines 180-183: a row without a raw distance
AlignSkipUnknown64 ==
  /\ fpc = "loop"
  /\ fl_idx <= Len(fl_raw)
  /\ fl_raw[fl_idx].nan
  /\ fl_corrected' = Append(fl_corrected, NaN64)
  /\ fl_idx' = fl_idx + 1
  /\ UNCHANGED <<fpc, fl_prev, fl_later, fl_raw, fl_prev_c, fl_flags>>
  /\ UNCHANGED notFloatVars

\* lines 200-203 for the corrected distance c of the row
AlignStore64(c) ==
  /\ fl_corrected' = Append(fl_corrected, Known(c))
  /\ fl_flags' = IF Violation64(c) THEN Append(fl_flags, fl_idx) ELSE fl_flags
  /\ fl_prev_c' = <<Known(c)>>

\* lines 184-203: find the segment, transform, flag a monotonic violation
AlignRow64 ==
  /\ fpc = "loop"
  /\ fl_idx <= Len(fl_raw)
  /\ ~fl_raw[fl_idx].nan
  /\ AlignStore64(TransformIn64(
       FindSegment64(fl_raw[fl_idx].v, fl_later, Min(Len(fl_prev), Len(fl_later)), 1),
       fl_raw[fl_idx].v))
  /\ fl_idx' = fl_idx + 1
  /\ UNCHANGED <<fpc, fl_prev, fl_later, fl_raw>>
  /\ UNCHANGED notFloatVars

\* lines 204-206
AlignReturn64 ==
  /\ fpc = "loop"
  /\ fl_idx > Len(fl_raw)
  /\ fpc' = "done"
  /\ UNCHANGED <<fl_prev, fl_later, fl_raw, fl_idx, fl_prev_c, fl_corrected, fl_flags>>
  /\ UNCHANGED notFloatVars

InitFloat ==
  /\ fpc = "start"
  /\ \E w \in FloatWeldPairs : fl_prev = w[1] /\ fl_later = w[2]
  /\ fl_raw \in SeqsUpTo(FloatCells, MaxFloatRows)
  /\ fl_idx = 1
  /\ fl_prev_c = <<>>
  /\ fl_corrected = <<>>
  /\ fl_flags = <<>>
  /\ NotFloatIdle

NextFloat ==
  \/ AlignFewWelds64
  \/ AlignStart64
  \/ AlignSkipUnknown64
  \/ AlignRow64
  \/ AlignReturn64

SpecFloat ==
  InitFloat /\ [][NextFloat]_vars

Next ==
  \/ FilterAnomalies
  \/ SkipUnknownDistance
  \/ NoCandidates
  \/ RecordAmbiguous
  \/ CommitMatch
  \/ BuildTables

Spec ==
  Init /\ [][Next]_vars

\* A previous run with girth welds at 0 m, 100 m and 200 m.
ThreeWeldPrev ==
  << Row(1, 0, " Girth Weld "),
     Row(2, 20000, " Girth Weld "),
     Row(3, 40000, " Girth Weld ") >>

\* The girth welds of a later run, at 0 m, 98 m and 205 m.
ThreeWeldLater ==
  << Row(1, 0, " Girth Weld "),
     Row(2, 19600, " Girth Weld "),
     Row(3, 41000, " Girth Weld ") >>

MaxProbes ==
  2

\* Anomalies of the later run: 5 m before the first weld, at 49 m, on the
\* weld at 98 m, at 150 m, 5 m after the last weld, of unknown distance, and
\* a seam weld anomaly at 125 m.
ProbeRows ==
  { Row(1, -1000, "metal loss"),
    Row(1, 9800, "metal loss"),
    Row(2, 19600, "metal loss"),
    Row(2, 30000, "metal loss"),
    Row(3, 42000, "metal loss"),
    Row(3, NaN, "metal loss"),
    Row(2, 25000, "Seam Weld Manufacturing Anomaly") }

\* the runs handed to align_two_runs: short runs of any rows, or the
\* three-weld runs with some anomalies in the later one
AlignInputs ==
  \/ /\ normalized_prev \in SeqsUpTo(PrevRows, MaxRowsPrev)
     /\ normalized_later \in SeqsUpTo(LaterRows, MaxRowsLater)
  \/ /\ normalized_prev = ThreeWeldPrev
     /\ normalized_later \in {ThreeWeldLater \o q : q \in SeqsUpTo(ProbeRows, MaxProbes)}

InitAlign ==
  /\ apc = "get_welds"
  /\ AlignInputs
  /\ welds_prev = <<>>
  /\ welds_later = <<>>
  /\ weld_map = <<>>
  /\ aligned_prev = <<>>
  /\ corrected = <<>>
  /\ idx = 1
  /\ prev_c = None
  /\ flags = <<>>
  /\ raised = FALSE
  /\ NotAlignIdle

NextAlign ==
  \/ GetWelds
  \/ IdentityFallback
  \/ BuildWeldMap
  \/ AlignSkipUnknown
  \/ AlignRow
  \/ AlignReturn

SpecAlign ==
  InitAlign /\ [][NextAlign]_vars

(***************************************************************************)
(* Properties of match_anomalies                                           *)
(***************************************************************************)
MatchIdx ==
  1..Len(matches)

AmbIdx ==
  1..Len(ambiguous_list)

SeqRange(q) ==
  {q[k] : k \in 1..Len(q)}

MatchedPrev ==
  {matches[a].prev_idx : a \in MatchIdx}

MatchedLater ==
  {matches[a].later_idx : a \in MatchIdx}

AmbiguousLater ==
  {ambiguous_list[a].later_idx : a \in AmbIdx}

\* the previous rows committed before later row k was processed
UsedBefore(k) ==
  {matches[a].prev_idx : a \in {b \in MatchIdx : matches[b].later_idx < k}}

\* shortest angular distance around the circle, for known clock positions
ShortestArc(a, b) ==
  LET d == Abs(a - b) % FULL_TURN
  IN  IF d <= FULL_TURN - d THEN d ELSE FULL_TURN - d

FamiliesCompatible(fp, fl) ==
  /\ fp # "WELD"
  /\ fl # "WELD"
  /\ (fp = fl \/ fp = UNKNOWN \/ fl = UNKNOWN)

\* the three hard filters, stated on a pair of rows
PassesHardFilters(p, l) ==
  /\ notna(p.distance_corrected_m)
  /\ notna(l.distance_corrected_m)
  /\ Abs(p.distance_corrected_m - l.distance_corrected_m) <= AXIAL_TOL_M
  /\ _circular_clock_diff(p.clock_position_deg, l.clock_position_deg) <= CLOCK_TOL_DEG
  /\ FamiliesCompatible(to_feature_family(p.feature_type), to_feature_family(l.feature_type))

\* previous rows passing the hard filters against later row k
Passers(k) ==
  {j \in 1..Len(prev) : PassesHardFilters(prev[j], later[k])}

\* the candidates later row k had when it was processed
Survivors(k) ==
  Passers(k) \ UsedBefore(k)

\* C1: no previous-run index is the prev_idx of two Matches and no later-run
\* index is the later_idx of two Matches.
C1_MatchesOneToOne ==
  \A a, b \in MatchIdx :
    a # b => /\ matches[a].prev_idx # matches[b].prev_idx
             /\ matches[a].later_idx # matches[b].later_idx

C1_Witness ==
  pc = "done" /\ Len(matches) >= 2

\* C2 as stated: the committed candidate scores no higher than any other
\* previous row passing the hard filters against the later row, and the next
\* best of those rows is at least epsilon behind.
C2_BestOfAllPassers ==
  \A a \in MatchIdx :
    LET m == matches[a]
    IN  \A j \in Passers(m.later_idx) \ {m.prev_idx} :
          /\ m.score <= score_match(prev[j], later[m.later_idx])
          /\ score_match(prev[j], later[m.later_idx]) - m.score >= MATCH_SCORE_EPSILON

\* C2, amended: the committed candidate scores no higher than any other
\* previous row that was still unused when the later row was processed and
\* passes the hard filters, and each of those is at least epsilon behind.
C2_BestOfUnusedPassers ==
  \A a \in MatchIdx :
    LET m == matches[a]
    IN  /\ m.prev_idx \in Survivors(m.later_idx)
        /\ m.score = score_match(prev[m.prev_idx], later[m.later_idx])
        /\ \A j \in Survivors(m.later_idx) \ {m.prev_idx} :
             /\ m.score <= score_match(prev[j], later[m.later_idx])
             /\ score_match(prev[j], later[m.later_idx]) - m.score >= MATCH_SCORE_EPSILON

C2_Witness ==
  /\ pc = "done"
  /\ \E a \in MatchIdx : Cardinality(Survivors(matches[a].later_idx)) >= 2

\* C3 as stated: a later anomaly is in New if and only if no candidate
\* survived the hard filters when it was processed.
C3_NewIffNoSurvivor ==
  pc = "done" =>
    \A k \in 1..Len(later) : (k \in SeqRange(new_rows)) <=> (Survivors(k) = {})

\* C3, amended: a later anomaly is in New if and only if it was not committed
\* as a Match, that is, no candidate survived for it or it was recorded as
\* Ambiguous.
C3_NewIffNotCommitted ==
  pc = "done" =>
    \A k \in 1..Len(later) :
      /\ (k \in SeqRange(new_rows)) <=> (k \notin MatchedLater)
      /\ (k \notin MatchedLater) <=> (Survivors(k) = {} \/ k \in AmbiguousLater)

C3_Witness ==
  /\ pc = "done"
  /\ \E k \in SeqRange(new_rows) : k \in AmbiguousLater /\ Survivors(k) # {}
  /\ \E k \in 1..Len(later) : k \notin SeqRange(new_rows)

\* two later rows whose only hard-filter-passing previous row is p, with
\* scores against p closer than epsilon
SharedOnlyCandidate(l1, l2, p) ==
  /\ Passers(l1) = {p}
  /\ Passers(l2) = {p}
  /\ Abs(score_match(prev[p], later[l1]) - score_match(prev[p], later[l2])) < MATCH_SCORE_EPSILON

\* C4 as stated: two later rows sharing one previous row as their only
\* candidate are both recorded Ambiguous and neither is committed.
C4_BothAmbiguous ==
  pc = "done" =>
    \A l1, l2 \in 1..Len(later) : \A p \in 1..Len(prev) :
      (l1 # l2 /\ SharedOnlyCandidate(l1, l2, p)) =>
        /\ {l1, l2} \subseteq AmbiguousLater
        /\ {l1, l2} \cap MatchedLater = {}

\* C4, amended: neither is recorded Ambiguous; the one processed first is
\* committed as a Match with the previous row (unless an earlier later row
\* already took it) and the one processed second is left in New.
C4_FirstCommittedSecondNew ==
  pc = "done" =>
    \A l1, l2 \in 1..Len(later) : \A p \in 1..Len(prev) :
      (l1 < l2 /\ SharedOnlyCandidate(l1, l2, p)) =>
        /\ {l1, l2} \cap AmbiguousLater = {}
        /\ l2 \in SeqRange(new_rows)
        /\ l2 \notin MatchedLater
        /\ (p \notin UsedBefore(l1) =>
              \E a \in MatchIdx : matches[a].prev_idx = p /\ matches[a].later_idx = l1)

C4_Witness ==
  /\ pc = "done"
  /\ \E l1, l2 \in 1..Len(later) : \E p \in 1..Len(prev) :
       /\ l1 < l2
       /\ SharedOnlyCandidate(l1, l2, p)
       /\ later[l1].distance_corrected_m # later[l2].distance_corrected_m
       /\ \E a \in MatchIdx : matches[a].prev_idx = p /\ matches[a].later_idx = l1

\* C5: in every Ambiguous entry score_1 is the best and score_2 the second
\* best score of the later row's candidates, and they differ by strictly less
\* than epsilon.
C5_AmbiguousWithinEpsilon ==
  \A a \in AmbIdx :
    LET e == ambiguous_list[a]
        l == later[e.later_idx]
    IN  /\ Abs(e.score_1 - e.score_2) < MATCH_SCORE_EPSILON
        /\ e.score_1 <= e.score_2
        /\ e.prev_idx_candidate_1 # e.prev_idx_candidate_2
        /\ {e.prev_idx_candidate_1, e.prev_idx_candidate_2} \subseteq Survivors(e.later_idx)
        /\ e.score_1 = score_match(prev[e.prev_idx_candidate_1], l)
        /\ e.score_2 = score_match(prev[e.prev_idx_candidate_2], l)
        /\ \A j \in Survivors(e.later_idx) : e.score_1 <= score_match(prev[j], l)
        /\ \A j \in Survivors(e.later_idx) \ {e.prev_idx_candidate_1} :
             e.score_2 <= score_match(prev[j], l)

C5_Witness ==
  pc = "done" /\ Len(ambiguous_list) >= 1

\* a step that records an Ambiguous entry
AmbiguousRecorded ==
  Len(ambiguous_list') > Len(ambiguous_list)

\* C6: recording an Ambiguous entry changes neither used_prev nor used_later
\* and leaves both candidates unused; a later row recorded Ambiguous is never
\* the later_idx of a Match.
C6_AmbiguousLeavesAvailable ==
  /\ [](AmbiguousLater \cap MatchedLater = {})
  /\ [][AmbiguousRecorded =>
          LET e == ambiguous_list'[Len(ambiguous_list')]
          IN  /\ used_prev' = used_prev
              /\ used_later' = used_later
              /\ matches' = matches
              /\ e.later_idx \notin used_later'
              /\ e.prev_idx_candidate_1 \notin used_prev'
              /\ e.prev_idx_candidate_2 \notin used_prev']_vars

\* a candidate of an Ambiguous entry is committed to a later-processed row
C6_Witness ==
  \E a \in AmbIdx : \E b \in MatchIdx :
    /\ matches[b].prev_idx \in {ambiguous_list[a].prev_idx_candidate_1,
                                ambiguous_list[a].prev_idx_candidate_2}
    /\ matches[b].later_idx > ambiguous_list[a].later_idx

\* C7: at the end Missing is exactly the previous anomalies that are the
\* prev_idx of no Match, each listed once.
C7_MissingIsUnmatchedPrev ==
  pc = "done" =>
    /\ SeqRange(missing_rows) = (1..Len(prev)) \ MatchedPrev
    /\ Len(missing_rows) = Cardinality(SeqRange(missing_rows))
    /\ Len(missing_rows) + Len(matches) = Len(prev)

C7_Witness ==
  pc = "done" /\ Len(missing_rows) >= 1 /\ Len(matches) >= 1

\* C8: every committed Match passes the three hard filters: corrected
\* distances within the axial tolerance, circular clock difference within the
\* clock tolerance, compatible families with neither side a weld; the clock
\* difference of known positions is the shortest arc, in 0..180 degrees and
\* symmetric.
C8_MatchesPassHardFilters ==
  /\ \A a \in MatchIdx :
       LET p == prev[matches[a].prev_idx]
           l == later[matches[a].later_idx]
       IN  /\ notna(p.distance_corrected_m) /\ notna(l.distance_corrected_m)
           /\ Abs(p.distance_corrected_m - l.distance_corrected_m) <= AXIAL_TOL_M
           /\ _circular_clock_diff(p.clock_position_deg, l.clock_position_deg) <= CLOCK_TOL_DEG
           /\ (notna(p.clock_position_deg) /\ notna(l.clock_position_deg)) =>
                ShortestArc(p.clock_position_deg, l.clock_position_deg) <= CLOCK_TOL_DEG
           /\ FamiliesCompatible(to_feature_family(p.feature_type),
                                 to_feature_family(l.feature_type))
  /\ \A j \in 1..Len(prev) : \A k \in 1..Len(later) :
       LET a == prev[j].clock_position_deg
           b == later[k].clock_position_deg
       IN  (notna(a) /\ notna(b)) =>
             /\ _circular_clock_diff(a, b) = ShortestArc(a, b)
             /\ _circular_clock_diff(a, b) = _circular_clock_diff(b, a)
             /\ _circular_clock_diff(a, b) \in 0..HALF_TURN

C8_Witness ==
  \E a \in MatchIdx :
    LET p == prev[matches[a].prev_idx]
        l == later[matches[a].later_idx]
    IN  /\ notna(p.clock_position_deg) /\ notna(l.clock_position_deg)
        /\ Abs(p.clock_position_deg - l.clock_position_deg) > HALF_TURN
        /\ to_feature_family(p.feature_type) = to_feature_family(l.feature_type)

(***************************************************************************)
(* Properties of align_two_runs and build_weld_map                         *)
(***************************************************************************)
\* a = b on floats: false when either is NaN
QEq(a, b) ==
  a # QNaN /\ b # QNaN /\ a = b

\* C9: when either run has fewer than two welds, align_two_runs raises
\* nothing and returns every row of both runs with its raw distance as its
\* corrected distance, and an empty weld map.
C9_IdentityBelowTwoWelds ==
  (apc \in {"welds", "loop", "done"}
     /\ (Len(welds_prev) < 2 \/ Len(welds_later) < 2)) =>
    /\ ~raised
    /\ apc \in {"welds", "done"}
    /\ apc = "done" =>
         /\ weld_map = <<>>
         /\ Len(aligned_prev) = Len(normalized_prev)
         /\ Len(corrected) = Len(normalized_later)
         /\ \A k \in 1..Len(normalized_prev) :
              aligned_prev[k] = ToQ(normalized_prev[k].distance_raw_m)
         /\ \A k \in 1..Len(normalized_later) :
              corrected[k] = ToQ(normalized_later[k].distance_raw_m)

C9_Witness ==
  /\ apc = "done"
  /\ Len(welds_prev) >= 2
  /\ Len(welds_later) = 1
  /\ \E k \in 1..Len(normalized_later) : notna(normalized_later[k].distance_raw_m)

\* C10: every weld-map row whose later segment length is below the minimum
\* has scale 1, offset 0 and the flag degenerate_segment; every other row has
\* an empty flag, scale * later segment length = previous segment length and
\* offset = distance_prev - scale * distance_later.
C10_WeldMapRows ==
  \A k \in 1..Len(weld_map) :
    LET r == weld_map[k]
    IN  IF Lt(r.segment_length_later_m, SEGMENT_LENGTH_MIN_M)
        THEN /\ r.scale = ToQ(1)
             /\ r.offset = ToQ(0)
             /\ r.align_flag = "degenerate_segment"
        ELSE /\ r.align_flag = ""
             /\ QEq(QMul(r.scale, ToQ(r.segment_length_later_m)),
                    ToQ(r.segment_length_prev_m))
             /\ QEq(r.offset,
                    QSub(ToQ(r.distance_prev_m), QMul(r.scale, ToQ(r.distance_later_m))))

\* the number of shared welds
SharedWelds ==
  Min(Len(welds_prev), Len(welds_later))

\* align_run_to_reference has run its loop up to row idx
Aligning ==
  apc \in {"loop", "done"} /\ SharedWelds >= 2

\* segment s is the first whose later-run weld interval contains d
FirstContaining(d, s) ==
  /\ Le(welds_later[s], d) /\ Le(d, welds_later[s + 1])
  /\ \A t \in 1..(s - 1) : ~(Le(welds_later[t], d) /\ Le(d, welds_later[t + 1]))

\* segment s is the one the claimed rule gives raw distance d: the first
\* containing it, the first segment before the first weld, the last segment
\* after the last shared weld
ClaimedSegment(d, s) ==
  \/ FirstContaining(d, s)
  \/ Lt(d, welds_later[1]) /\ s = 1
  \/ Gt(d, welds_later[SharedWelds]) /\ s = SharedWelds - 1

\* the runs of the example: previous welds 0, 100, 200 m, later 0, 98, 205 m
ExampleWelds ==
  welds_prev = <<0, 20000, 40000>> /\ welds_later = <<0, 19600, 41000>>

\* C11: with n >= 2 shared welds, every row of known raw distance d gets
\* corrected = scale_s * d + offset_s of the weld-map row of its segment s
\* (the first containing d, the first when d is before the first weld, the
\* last when d is after the last weld; NaN when the row's scale is NaN); with
\* previous welds 0, 100, 200 m and later welds 0, 98, 205 m, 49 m maps to 50 m.
C11_SegmentTransform ==
  Aligning =>
    \A k \in 1..Len(corrected) :
      LET d == normalized_later[k].distance_raw_m
      IN  notna(d) =>
            /\ \A s \in 1..(SharedWelds - 1) :
                 ClaimedSegment(d, s) =>
                   corrected[k] = QAdd(QMul(weld_map[s].scale, ToQ(d)), weld_map[s].offset)
            /\ (ExampleWelds /\ d = 9800) => corrected[k] = ToQ(10000)

\* the example's 49 m row, a row before the first weld and a row after the
\* last weld have been transformed
C11_Witness ==
  /\ apc = "done"
  /\ ExampleWelds
  /\ \E k \in 1..Len(corrected) :
       normalized_later[k].distance_raw_m = 9800 /\ corrected[k] = ToQ(10000)
  /\ \E k \in 1..Len(corrected) :
       \/ Lt(normalized_later[k].distance_raw_m, welds_later[1])
       \/ Gt(normalized_later[k].distance_raw_m, welds_later[3])

UnmappedRequired ==
  {c \in SeqRange(REQUIRED_CANONICAL) :
     \A k \in 1..Len(columns) : map_header_to_canonical(columns[k]).canon # c}

\* C13: parse_run raises exactly when a required field is unmapped; the error
\* lists exactly the unmapped required fields, each once, and all headers of
\* the sheet, and no table is returned; when every required field is mapped
\* it returns a table whatever recommended fields are missing.
C13_SchemaErrorListsMissing ==
  spc \in {"raised", "returned"} =>
    /\ (spc = "raised") <=> (UnmappedRequired # {})
    /\ spc = "raised" =>
         /\ Len(parse_error) = 1
         /\ SeqRange(parse_error[1].missing) = UnmappedRequired
         /\ Len(parse_error[1].missing) = Cardinality(UnmappedRequired)
         /\ parse_error[1].available = columns
         /\ out_columns = <<>>
         /\ schema_info = <<>>
    /\ spc = "returned" =>
         /\ parse_error = <<>>
         /\ Len(out_columns) = Len(columns) + 2
         /\ Len(schema_info) = 1

\* a sheet with two headers lacking two required fields has been rejected
C13_Witness ==
  /\ spc = "raised"
  /\ Len(columns) >= 2
  /\ Cardinality(UnmappedRequired) = 2
  /\ \E k \in 1..Len(columns) : map_header_to_canonical(columns[k]).canon = DEPTH_PERCENT

(***************************************************************************)
(* Properties of the pipeline driver                                       *)
(***************************************************************************)
\* the sheet of a year is present and parse_run rejects it
MappingFails(year) ==
  /\ year \in DOMAIN workbook
  /\ parse_run(workbook[year], year).error # <<>>

\* some year handed to run_mvp has a sheet parse_run rejects
SomeMappingFails ==
  \E k \in 1..Len(run_years) : MappingFails(run_years[k])

\* C14: when the schema mapping of a requested run fails, run_mvp executes no
\* normalize, align, match or growth stage, writes no output file, never
\* returns success, and returns the failure code 1 when it returns.
C14_NoPartialProcessing ==
  SomeMappingFails =>
    /\ stages = <<>>
    /\ tables_written = {}
    /\ rc # 0
    /\ rpc = "done" => rc = 1

\* run_mvp has returned failure with one run parsed and the other rejected
C14_Witness ==
  /\ rpc = "done"
  /\ rc = 1
  /\ Len(run_years) = 2
  /\ Cardinality(DOMAIN parsed) = 1
  /\ SomeMappingFails
  /\ report # <<>>

\* C15: every run_mvp that loaded the input file has, when it returns, written
\* a schema report that has an entry for each requested year, with the error
\* of every year whose required fields could not be mapped.
C15_ReportAlwaysEmitted ==
  (rpc = "done" /\ report # <<>>) =>
    /\ report_file # <<>>
    /\ \A k \in 1..Len(run_years) :
         /\ run_years[k] \in DOMAIN report_file[1].runs
         /\ MappingFails(run_years[k]) => report_file[1].runs[run_years[k]].error # <<>>

\* some stage of the run has processed the year
Processed(year) ==
  \E k \in 1..Len(stages) : stages[k].prev = year \/ stages[k].later = year

\* the later run has been aligned to the previous one
AlignedTo(l, p) ==
  \E k \in 1..Len(stages) :
    stages[k].stage = "align" /\ stages[k].later = l /\ stages[k].prev = p

\* C16: a successful multirun over three years A < B < C has aligned B to A
\* and C to B, and has processed all three runs.
C16_ThreeRunsChained ==
  (/\ rpc = "done"
   /\ rc = 0
   /\ mode = "multirun"
   /\ Len(args_runs) = 3
   /\ args_runs[1] < args_runs[2]
   /\ args_runs[2] < args_runs[3]) =>
    /\ AlignedTo(args_runs[2], args_runs[1])
    /\ AlignedTo(args_runs[3], args_runs[2])
    /\ \A k \in 1..3 : Processed(args_runs[k])

(***************************************************************************)
(* Properties of compute_growth_for_matches                                *)
(***************************************************************************)
\* the rate the table must hold for one pair of values
ExpectedRate(v_old, v_new) ==
  IF v_old # NaN /\ v_new # NaN
  THEN Q(v_new - v_old, growth_later_year - growth_prev_year)
  ELSE None

\* C20: in the table returned, each Match has for depth, length and width
\* the rate (later - prev) / (later_year - prev_year) when both values are
\* known, and an undefined rate, never zero, when a value is missing; the
\* Match with depth 20 in 2015 and 35 in 2022 has depth rate 15/7 and is not
\* flagged outlier_rate.
C20_GrowthRates ==
  gpc = "returned" =>
    /\ Len(m_with_growth) = Len(matches_in)
    /\ \A k \in 1..Len(matches_in) :
         LET r == matches_in[k]
             o == m_with_growth[k]
         IN  /\ o.depth_rate = ExpectedRate(r.prev_depth_percent, r.later_depth_percent)
             /\ o.length_rate = ExpectedRate(r.prev_length_mm, r.later_length_mm)
             /\ o.width_rate = ExpectedRate(r.prev_width_mm, r.later_width_mm)
             /\ (r.prev_depth_percent = NaN \/ r.later_depth_percent = NaN) =>
                  (o.depth_rate = None /\ o.depth_rate # Q(0, 1))
             /\ (r.prev_length_mm = NaN \/ r.later_length_mm = NaN) =>
                  (o.length_rate = None /\ o.length_rate # Q(0, 1))
             /\ (r.prev_width_mm = NaN \/ r.later_width_mm = NaN) =>
                  (o.width_rate = None /\ o.width_rate # Q(0, 1))
             /\ (/\ growth_prev_year = 2015
                 /\ growth_later_year = 2022
                 /\ r.prev_depth_percent = 20
                 /\ r.later_depth_percent = 35) =>
                  (o.depth_rate = [n |-> 15, d |-> 7] /\ o.growth_flag = "")

\* the table of the example and a Match with a missing depth and length has
\* been returned
C20_Witness ==
  /\ gpc = "returned"
  /\ growth_prev_year = 2015
  /\ growth_later_year = 2022
  /\ Len(m_with_growth) = 2
  /\ m_with_growth[1].prev_depth_percent = 20
  /\ m_with_growth[1].later_depth_percent = 35
  /\ m_with_growth[1].depth_rate = [n |-> 15, d |-> 7]
  /\ m_with_growth[2].prev_depth_percent = NaN
  /\ m_with_growth[2].depth_rate = None
  /\ m_with_growth[2].width_rate = [n |-> 1, d |-> 1]

(***************************************************************************)
(* Properties of compute_projections                                       *)
(***************************************************************************)
\* the rows of the projection tables returned: target year, row, its Match
Projected ==
  UNION {{[ty |-> ty, o |-> result[ty][j],
            row |-> matches_df[result[ty][j].anomaly_id_curr]] :
             j \in 1..Len(result[ty])} : ty \in DOMAIN result}

\* with the tables returned, every Match with a later depth has a row in the
\* table of every target year
EveryMatchProjected ==
  \A k \in 1..Len(target_years), m \in 1..Len(matches_df) :
    notna(matches_df[m].later_depth_percent) =>
      \E e \in Projected : e.ty = target_years[k] /\ e.o.anomaly_id_curr = m

\* C17 as stated: at a target year not after the later year the projected
\* depth equals the later depth exactly.
C17_HorizonZeroIdentity ==
  ppc = "returned" =>
    /\ EveryMatchProjected
    /\ \A e \in Projected :
         e.ty <= e.row.later_year => e.o.projected_depth = e.row.later_depth_percent

\* C17: at a target year not after the later year the projected depth is the
\* later depth rounded to two decimals, whatever k was fitted, and the depth
\* itself when that has at most two decimals.
C17_HorizonZeroRounded ==
  ppc = "returned" =>
    /\ EveryMatchProjected
    /\ \A e \in Projected :
         e.ty <= e.row.later_year =>
           /\ e.o.projected_depth \in round2(e.row.later_depth_percent)
           /\ e.o.depth_curr = e.row.later_depth_percent
           /\ e.row.later_depth_percent % ROUND_STEP = 0 =>
                e.o.projected_depth = e.row.later_depth_percent

\* at the later year itself, a Match with a positive k and a Match whose
\* depth has three decimals have been projected
C17_Witness ==
  /\ ppc = "returned"
  /\ \E e \in Projected :
       /\ e.ty = e.row.later_year
       /\ e.o.growth_rate_per_year > 0
       /\ e.o.projected_depth = e.row.later_depth_percent
  /\ \E e \in Projected :
       /\ e.ty = e.row.later_year
       /\ e.row.later_depth_percent % ROUND_STEP # 0
       /\ e.o.projected_depth # e.row.later_depth_percent

\* C18: every projected depth of every table returned lies in 0..100 percent.
C18_ProjectedInRange ==
  ppc = "returned" =>
    \A e \in Projected :
      e.o.projected_depth >= 0 /\ e.o.projected_depth <= FULL_DEPTH

\* C19: a Match whose later depth is not above its earlier depth is
\* extrapolated with k = 0 and keeps its current depth, to the rounding, at
\* every target year.
C19_NoGrowthKeepsDepth ==
  ppc = "returned" =>
    \A e \in Projected :
      (/\ notna(e.row.prev_depth_percent)
       /\ e.row.later_depth_percent <= e.row.prev_depth_percent) =>
        /\ _bounded_logistic_k(_logistic_k_from_row(e.row), k_valid).k = 0
        /\ e.o.projected_depth \in round2(e.row.later_depth_percent)

SegmentAfter(w, k) ==
  IF k + 1 <= Len(w)
  THEN Sub(w[k + 1], w[k])
  ELSE IF w[k] = NaN THEN NaN ELSE 0

FlaggedRows ==
  {flags[a].row : a \in 1..Len(flags)}

\* row j comes before row k when the rows of known raw distance are taken in
\* ascending raw-distance order (rows at one distance in table order)
RawBefore(j, k) ==
  LET dj == normalized_later[j].distance_raw_m
      dk == normalized_later[k].distance_raw_m
  IN  notna(dj) /\ notna(dk) /\ (dj < dk \/ (dj = dk /\ j < k))

\* row j is the row preceding row k in ascending raw-distance order
RawPredecessor(j, k) ==
  /\ RawBefore(j, k)
  /\ \A m \in 1..Len(normalized_later) : ~(RawBefore(j, m) /\ RawBefore(m, k))

\* the corrected distance the transform gives raw distance d
TransformOf(d) ==
  LET s == FindSegment(d, welds_later, SharedWelds, 1)
  IN  _segment_transform(welds_later[s], welds_later[s + 1],
                         welds_prev[s], welds_prev[s + 1], d)[1]

\* the flags leave the corrected distances as the transform computed them
FlagsAreDiagnosticOnly ==
  /\ Len(corrected) = Len(normalized_later)
  /\ \A k \in 1..Len(corrected) :
       corrected[k] = IF isna(normalized_later[k].distance_raw_m)
                      THEN QNaN
                      ELSE TransformOf(normalized_later[k].distance_raw_m)

\* C24: when align_run_to_reference returns, a row is flagged
\* monotonic_violation exactly when its corrected distance is below, by more
\* than the tolerance, the corrected distance of the row preceding it in
\* ascending raw-distance order; the corrected distances are those of the
\* transform whatever the flags.
C24_FlagIffBelowRawPredecessor ==
  (apc = "done" /\ SharedWelds >= 2 /\ ~raised) =>
    /\ FlagsAreDiagnosticOnly
    /\ \A k \in 1..Len(normalized_later) :
         k \in FlaggedRows <=>
           \E j \in 1..Len(normalized_later) :
             /\ RawPredecessor(j, k)
             /\ corrected[j] # QNaN
             /\ corrected[k] # QNaN
             /\ BelowByMoreThanTol(corrected[k], corrected[j])

\* the same with the rows taken in table order, skipping rows of unknown raw
\* distance: what the scan computes
C24_FlagIffBelowTablePredecessor ==
  (apc = "done" /\ SharedWelds >= 2 /\ ~raised) =>
    /\ FlagsAreDiagnosticOnly
    /\ \A k \in 1..Len(normalized_later) :
         k \in FlaggedRows <=>
           \E j \in 1..(k - 1) :
             /\ notna(normalized_later[j].distance_raw_m)
             /\ notna(normalized_later[k].distance_raw_m)
             /\ \A m \in (j + 1)..(k - 1) : isna(normalized_later[m].distance_raw_m)
             /\ corrected[j] # QNaN
             /\ corrected[k] # QNaN
             /\ BelowByMoreThanTol(corrected[k], corrected[j])

(***************************************************************************)
(* Counts of the tables match_anomalies returns                            *)
(***************************************************************************)
\* the number of anomalies of the later run, as the summary counts them
total_later ==
  Cardinality({k \in 1..Len(df_later) : is_anomaly(df_later[k].feature_type)})

\* C27: when match_anomalies returns, Matches and New together have one row
\* per later-run anomaly, and every later row recorded Ambiguous is a row of
\* New as well.
C27_AmbiguousWithinNew ==
  pc = "done" =>
    /\ Len(matches) + Len(new_rows) = Len(later)
    /\ Len(later) = total_later
    /\ AmbiguousLater \subseteq SeqRange(new_rows)
    /\ MatchedLater \cap SeqRange(new_rows) = {}

\* a run with an Ambiguous row and a Match: matched + new + ambiguous exceeds
\* the number of later anomalies
C27_Witness ==
  /\ pc = "done"
  /\ ambiguous_list # <<>>
  /\ matches # <<>>
  /\ Len(matches) + Len(new_rows) + Len(ambiguous_list) > total_later

(***************************************************************************)
(* The rate compute_projections uses                                       *)
(***************************************************************************)
\* k clipped to the band lo..hi and then floored at zero
ClipToBand(k, lo, hi) ==
  LET clipped == IF k < lo THEN lo ELSE IF k > hi THEN hi ELSE k
  IN  IF clipped < 0 THEN 0 ELSE clipped

\* the fitted k of every Match of the dataset that has one
AllValidK ==
  DropNa(RowValues(_logistic_k_from_row, matches_df), 1)

\* the rate used for the Match of a projected row
RateUsed(row) ==
  ClipToBand(_logistic_k_from_row(row), quantile(AllValidK, 5), quantile(AllValidK, 95))

\* C25: in the tables returned, a row whose Match has a fitted k is
\* extrapolated with k clipped to the 5th..95th percentile band of all valid
\* fitted k and floored at zero (projected depth and modeled rate are
\* computed from that rate), and it carries model_capped exactly when that
\* rate differs from the fitted k.
C25_RateClippedToBand ==
  ppc = "returned" =>
    \A e \in Projected :
      _logistic_k_from_row(e.row) # NoValue =>
        /\ k_valid = AllValidK
        /\ e.o.growth_rate_per_year =
             (RateUsed(e.row) * Max(0, FULL_DEPTH - e.row.later_depth_percent)) \div K_SCALE
        /\ e.o.projected_depth \in
             round2(_project_depth_realistic(e.row.later_depth_percent, RateUsed(e.row),
                                             e.ty - e.row.later_year))
        /\ (\E a \in 1..Len(e.o.confidence_flag) : e.o.confidence_flag[a] = "model_capped")
             <=> RateUsed(e.row) # _logistic_k_from_row(e.row)

\* a table returned holds a row whose fitted k was raised to the lower limit,
\* a row whose fitted k was cut to the upper limit and a row whose k was used
\* as fitted
C25_Witness ==
  /\ ppc = "returned"
  /\ \E e \in Projected :
       /\ _logistic_k_from_row(e.row) # NoValue
       /\ RateUsed(e.row) > _logistic_k_from_row(e.row)
  /\ \E e \in Projected :
       /\ _logistic_k_from_row(e.row) # NoValue
       /\ RateUsed(e.row) < _logistic_k_from_row(e.row)

\* C28: in the tables returned, the rate used for extrapolation and the
\* modeled growth rate of every row are not negative and no row carries the
\* flag negative_growth.
C28_NoNegativeGrowth ==
  ppc = "returned" =>
    \A e \in Projected :
      /\ LET b == _bounded_logistic_k(_logistic_k_from_row(e.row), k_valid)
         IN  b.k = NoValue \/ b.k >= 0
      /\ e.o.growth_rate_per_year = NoValue \/ e.o.growth_rate_per_year >= 0
      /\ \A a \in 1..Len(e.o.confidence_flag) : e.o.confidence_flag[a] # "negative_growth"

\* a table returned holds the row of a Match whose depth went down and the
\* row of a Match with a positive modeled rate
C28_Witness ==
  /\ ppc = "returned"
  /\ \E e \in Projected :
       /\ notna(e.row.prev_depth_percent)
       /\ e.row.later_depth_percent < e.row.prev_depth_percent
       /\ e.o.growth_rate_per_year # NoValue
  /\ \E e \in Projected :
       e.o.growth_rate_per_year # NoValue /\ e.o.growth_rate_per_year > 0

(***************************************************************************)
(* The years run_mvp hands to the growth stage                             *)
(***************************************************************************)
\* the stages of the given name that run_mvp has executed
StagesNamed(name) ==
  {a \in 1..Len(stages) : stages[a].stage = name}

\* run_mvp was given two different years and parsed the sheet of each
TwoDistinctParsedYears ==
  /\ Len(run_years) = 2
  /\ run_years[1] # run_years[2]
  /\ DOMAIN parsed = {run_years[1], run_years[2]}

\* C29: every growth stage run_mvp executes is given later_year - prev_year
\* > 0; run_mvp executes alignment or growth only on two different years
\* that were both parsed, and otherwise returns 1 with no stage executed.
C29_GrowthYearsPositive ==
  /\ \A a \in StagesNamed("growth") : stages[a].later - stages[a].prev > 0
  /\ (StagesNamed("align") # {} \/ StagesNamed("growth") # {}) => TwoDistinctParsedYears
  /\ (rpc = "done" /\ run_years # <<>> /\ ~TwoDistinctParsedYears) =>
       rc = 1 /\ stages = <<>>

\* the growth stage was reached from a run list given in descending order
C29_Witness ==
  /\ StagesNamed("growth") # {}
  /\ run_years[1] > run_years[2]

(***************************************************************************)
(* Weld anchors and anomalies                                              *)
(***************************************************************************)
\* the rows of a run that get_welds_explicit keeps as weld anchors
AnchorRows(df) ==
  {k \in 1..Len(df) : is_weld(df[k].feature_type) /\ notna(df[k].distance_raw_m)}

\* the rows of a run that match_anomalies takes as anomalies
AnomalyRows(df) ==
  {k \in 1..Len(df) : is_anomaly(df[k].feature_type)}

\* C22: once the welds of the two runs are taken, no row kept as a weld
\* anchor is a row eligible for anomaly matching; a seam weld anomaly is not
\* an anchor.
C22_AnchorsAreNotAnomalies ==
  apc # "get_welds" =>
    /\ AnchorRows(normalized_prev) \cap AnomalyRows(normalized_prev) = {}
    /\ AnchorRows(normalized_later) \cap AnomalyRows(normalized_later) = {}
    /\ \A k \in AnchorRows(normalized_later) :
         normalized_later[k].feature_type # "Seam Weld Manufacturing Anomaly"

(***************************************************************************)
(* Properties of the clock step of normalize_run                           *)
(***************************************************************************)
\* the texts of the model that are neither a number nor a clock time: empty
\* or separators only, not numeric, a non-finite number written as text
UnparseableClockTexts ==
  {"", "  ", "\n", ":", " : . "} \cup {"abc", "12:xx"} \cup {"nan", "inf", "-Infinity"}

\* hour and minute of the texts of the model that are clock times
ClockTimes ==
  ("09:00" :> <<9, 0>>) @@ ("12:00" :> <<12, 0>>) @@ (" 3:30 " :> <<3, 30>>) @@
  ("06:15:30" :> <<6, 15>>) @@ ("13:75" :> <<13, 75>>)

\* a cell of the output column is unknown
UnknownClock(c) ==
  c = NoValue \/ c = NaN

\* the cells apply has converted
Converted ==
  IF clock_col = <<>> THEN {} ELSE 1..Len(clock_out)

\* C21: no exception leaves normalize_run from the clock step, and a cell
\* holding an unparseable text is converted to unknown.
C21_UnparseableIsUnknown ==
  /\ clock_exc = ""
  /\ \A k \in Converted :
       (clock_col[1][k].kind = "text" /\ clock_col[1][k].s \in UnparseableClockTexts) =>
         UnknownClock(clock_out[k])

WeldsIncreasing ==
  /\ SharedWelds >= 2
  /\ \A s \in 1..(SharedWelds - 1) :
       /\ Lt(welds_prev[s], welds_prev[s + 1])
       /\ Lt(welds_later[s], welds_later[s + 1])
       /\ ~Degenerate(Sub(welds_later[s + 1], welds_later[s]))

\* the rows of the later run stand in ascending raw-distance order
RawAscending ==
  \A j, k \in 1..Len(normalized_later) :
    (j < k /\ notna(normalized_later[j].distance_raw_m)
           /\ notna(normalized_later[k].distance_raw_m)) =>
      normalized_later[j].distance_raw_m <= normalized_later[k].distance_raw_m

\* in exact arithmetic: over strictly increasing welds without a degenerate
\* segment the corrected distances are ordered as the raw distances, a row at
\* an interior weld lands on the previous run's weld, and a table in
\* ascending raw-distance order gets no monotonic_violation
MonotoneInExactArithmetic ==
  (apc = "done" /\ WeldsIncreasing /\ ~raised) =>
    /\ \A j, k \in 1..Len(corrected) :
         (notna(normalized_later[j].distance_raw_m)
            /\ notna(normalized_later[k].distance_raw_m)
            /\ normalized_later[j].distance_raw_m <= normalized_later[k].distance_raw_m) =>
           QSub(corrected[k], corrected[j]).n >= 0
    /\ \A k \in 1..Len(corrected), s \in 2..(SharedWelds - 1) :
         normalized_later[k].distance_raw_m = welds_later[s] =>
           corrected[k] = ToQ(welds_prev[s])
    /\ RawAscending => flags = <<>>

(***************************************************************************)
(* C30: monotonicity of the transform as the floats compute it             *)
(***************************************************************************)
\* the shared welds of both float runs are strictly increasing and no later
\* segment between them is shorter than the minimum length
FloatWeldsIncreasing ==
  /\ Min(Len(fl_prev), Len(fl_later)) >= 2
  /\ \A s \in 1..(Min(Len(fl_prev), Len(fl_later)) - 1) :
       /\ FlLt(fl_prev[s], fl_prev[s + 1])
       /\ FlLt(fl_later[s], fl_later[s + 1])
       /\ ~FlLt(FlAbs(FlSub(fl_later[s + 1], fl_later[s])), SEGMENT_LENGTH_MIN_M64)

\* the known raw distances stand in ascending order in the table
FloatRawAscending ==
  \A j \in 1..Len(fl_raw) : \A k \in j..Len(fl_raw) :
    (~fl_raw[j].nan /\ ~fl_raw[k].nan) => FlLe(fl_raw[j].v, fl_raw[k].v)

\* C30: over strictly increasing shared welds without a degenerate later
\* segment, rows with raw distances d1 <= d2 get corrected(d1) <= corrected(d2),
\* and rows scanned in ascending raw-distance order are never flagged
\* monotonic_violation
C30_TransformMonotone ==
  (fpc = "done" /\ FloatWeldsIncreasing) =>
    /\ \A j \in 1..Len(fl_raw) : \A k \in 1..Len(fl_raw) :
         (~fl_raw[j].nan /\ ~fl_raw[k].nan /\ FlLe(fl_raw[j].v, fl_raw[k].v)) =>
           FlLe(fl_corrected[j].v, fl_corrected[k].v)
    /\ FloatRawAscending => fl_flags = <<>>

\* the same with the two parts apart: the order of the corrected distances
C30_CorrectedOrdered ==
  (fpc = "done" /\ FloatWeldsIncreasing) =>
    \A j \in 1..Len(fl_raw) : \A k \in 1..Len(fl_raw) :
      (~fl_raw[j].nan /\ ~fl_raw[k].nan /\ FlLe(fl_raw[j].v, fl_raw[k].v)) =>
        FlLe(fl_corrected[j].v, fl_corrected[k].v)

\* and the flags of a table in ascending raw-distance order
C30_AscendingNeverFlagged ==
  (fpc = "done" /\ FloatWeldsIncreasing /\ FloatRawAscending) => fl_flags = <<>>

====
